---- MODULE Spec2Model ----
(***************************************************************************)
(* Model of the stock dashboard's scraping core (src/app.py):              *)
(*   get_screener_codes_for_ticker, the CSV-derived candidate mapping,     *)
(*   fetch_screener_html behind functools.lru_cache, fetch_screener_metrics *)
(*   and the update_dashboard callback.                                    *)
(*                                                                         *)
(* Python strings are sequences of one-character strings, so that          *)
(* endswith, isdigit, split, lower and "in" are computed, not assumed.     *)
(* Python None is the distinguished value None.                            *)
(***************************************************************************)
EXTENDS Integers, Sequences, FiniteSets, TLC

----------------------------------------------------------------------------
(* Python values and string primitives                                     *)

None == <<"None">>

NaN == <<"NaN">>

\* Python truthiness of a str-or-None value: None and "" are falsy.
Truthy(s) == s /= None /\ s /= <<>>

Digits == {"0", "1", "2", "3", "4", "5", "6", "7", "8", "9"}

\* str.isdigit(): non-empty and every character a digit.
isdigit(s) == Len(s) > 0 /\ \A i \in 1..Len(s) : s[i] \in Digits

\* str.endswith(suffix)
endswith(s, suffix) ==
    /\ Len(s) >= Len(suffix)
    /\ SubSeq(s, Len(s) - Len(suffix) + 1, Len(s)) = suffix

\* sub in s
Contains(s, sub) ==
    \E i \in 1..(Len(s) - Len(sub) + 1) : SubSeq(s, i, i + Len(sub) - 1) = sub

\* s[:-3]
DropLast3(s) == SubSeq(s, 1, Len(s) - 3)

\* s.split(".")[0]: the part before the first ".", the whole string without one.
SplitDotFirst(s) ==
    IF \E i \in 1..Len(s) : s[i] = "."
    THEN LET i == CHOOSE i \in 1..Len(s) :
                      s[i] = "." /\ \A j \in 1..(i - 1) : s[j] /= "."
         IN  SubSeq(s, 1, i - 1)
    ELSE s

\* str.strip(): drop leading and trailing blanks.
RECURSIVE LStrip(_)
LStrip(s) == IF Len(s) > 0 /\ s[1] = " " THEN LStrip(Tail(s)) ELSE s

RECURSIVE RStrip(_)
RStrip(s) ==
    IF Len(s) > 0 /\ s[Len(s)] = " " THEN RStrip(SubSeq(s, 1, Len(s) - 1)) ELSE s

strip(s) == RStrip(LStrip(s))

\* str.lower(): upper-case letters map to lower case, every other character
\* to itself.
UpperCase == <<"A", "B", "C", "D", "E", "F", "G", "H", "I", "J", "K", "L", "M",
               "N", "O", "P", "Q", "R", "S", "T", "U", "V", "W", "X", "Y", "Z">>

LowerCase == <<"a", "b", "c", "d", "e", "f", "g", "h", "i", "j", "k", "l", "m",
               "n", "o", "p", "q", "r", "s", "t", "u", "v", "w", "x", "y", "z">>

lower_char(c) ==
    IF \E i \in 1..26 : UpperCase[i] = c
    THEN LowerCase[CHOOSE i \in 1..26 : UpperCase[i] = c]
    ELSE c

lower(s) == [i \in 1..Len(s) |-> lower_char(s[i])]

DotNS == <<".", "N", "S">>

DotBO == <<".", "B", "O">>

----------------------------------------------------------------------------
(* State                                                                   *)

VARIABLES
    SCREENER_SPECIAL,           \* override table: ticker -> [islist, val]
    master_df,                  \* rows of the master list kept after filtering
    TICKER_TO_SCREENER_CODES,   \* CSV-derived mapping: ticker -> list of codes
    site,                       \* what the external site answers, per URL
    markup,                     \* what the parsers make of each body served
    html_cache,                 \* lru_cache of fetch_screener_html, LRU first
    metrics_cache,              \* lru_cache of fetch_screener_metrics, LRU first
    conversation_history,       \* GroqChatbot.conversation_history
    chat_history,               \* the "chat-history" store of each open page
    call,                       \* record of the latest top-level call
    hist,                       \* per-ticker history of fetch_screener_html calls
    threads                     \* where each server thread is in fetch_screener_html

vars == <<SCREENER_SPECIAL, master_df, TICKER_TO_SCREENER_CODES, site, markup,
          html_cache, metrics_cache, conversation_history, chat_history,
          call, hist, threads>>

chat == <<conversation_history, chat_history>>

config == <<SCREENER_SPECIAL, master_df, TICKER_TO_SCREENER_CODES>>

----------------------------------------------------------------------------
(* IdentifierResolver                                                      *)

\* codes_from_ticker without the ".NS" branch.
codes_from_ticker_no_ns(symbol) ==
    IF Truthy(symbol) /\ endswith(symbol, DotBO) THEN <<DropLast3(symbol)>>
    ELSE IF Truthy(symbol) /\ Contains(symbol, <<".">>) THEN <<SplitDotFirst(symbol)>>
    ELSE <<symbol>>

\* codes_from_ticker keeping a ".BO" remainder only when it is all digits.
codes_from_ticker_bo_digits(symbol) ==
    IF Truthy(symbol) /\ endswith(symbol, DotNS) THEN <<DropLast3(symbol)>>
    ELSE IF Truthy(symbol) /\ endswith(symbol, DotBO) /\ isdigit(DropLast3(symbol))
         THEN <<DropLast3(symbol)>>
    ELSE IF Truthy(symbol) /\ Contains(symbol, <<".">>) THEN <<SplitDotFirst(symbol)>>
    ELSE <<symbol>>

\* Heuristic derivation from the ticker string itself (the "Fallback" branch).
codes_from_ticker(symbol) ==
    IF Truthy(symbol) /\ endswith(symbol, DotNS) THEN <<DropLast3(symbol)>>
    ELSE IF Truthy(symbol) /\ endswith(symbol, DotBO) THEN
        IF isdigit(DropLast3(symbol)) THEN <<DropLast3(symbol)>>
        ELSE <<DropLast3(symbol)>>
    ELSE IF Truthy(symbol) /\ Contains(symbol, <<".">>) THEN <<SplitDotFirst(symbol)>>
    ELSE <<symbol>>

\* get_screener_codes_for_ticker consulting the CSV mapping before the overrides.
get_screener_codes_csv_first(symbol) ==
    IF symbol \in DOMAIN TICKER_TO_SCREENER_CODES THEN
        TICKER_TO_SCREENER_CODES[symbol]
    ELSE IF symbol \in DOMAIN SCREENER_SPECIAL THEN
        IF SCREENER_SPECIAL[symbol].islist THEN SCREENER_SPECIAL[symbol].val
        ELSE <<SCREENER_SPECIAL[symbol].val>>
    ELSE LET codes == codes_from_ticker(symbol)
         IN  IF codes /= <<>> THEN codes ELSE <<None>>

get_screener_codes_for_ticker(symbol) ==
    IF symbol \in DOMAIN SCREENER_SPECIAL THEN
        IF SCREENER_SPECIAL[symbol].islist THEN SCREENER_SPECIAL[symbol].val
        ELSE <<SCREENER_SPECIAL[symbol].val>>
    ELSE IF symbol \in DOMAIN TICKER_TO_SCREENER_CODES THEN
        TICKER_TO_SCREENER_CODES[symbol]
    ELSE LET codes == codes_from_ticker(symbol)
         IN  IF codes /= <<>> THEN codes ELSE <<None>>

ticker_to_screener_code(symbol) ==
    LET codes == get_screener_codes_for_ticker(symbol)
    IN  IF codes /= <<>> THEN codes[1] ELSE None

----------------------------------------------------------------------------
(* CSV-derived mapping, built once at start-up from the master list        *)

nan == <<"n", "a", "n">>

\* The order the comment above the loop announces: both symbols before the
\* numeric code.
preference_symbols_first(nse, bsc, bss) == nse \o bss \o bsc

\* The order in which the loop appends what a row has.
preference(nse, bsc, bss) == nse \o bsc \o bss

\* The candidate list of one master-list row.
row_codes(columns, row) ==
    LET nse == IF "NSE_SYMBOL" \in columns /\ row.NSE_SYMBOL /= NaN
               THEN LET nse_sym == strip(row.NSE_SYMBOL)
                    IN  IF nse_sym /= <<>> /\ nse_sym /= nan THEN <<nse_sym>> ELSE <<>>
               ELSE <<>>
        bsc == IF "BSE_CODE" \in columns /\ row.BSE_CODE /= NaN
               THEN LET raw == strip(row.BSE_CODE)
                        bse_code == IF Contains(raw, <<".">>)
                                    THEN SplitDotFirst(raw) ELSE raw
                    IN  IF bse_code /= <<>> /\ bse_code /= nan /\ isdigit(bse_code)
                        THEN <<bse_code>> ELSE <<>>
               ELSE <<>>
        bss == IF "BSE_SYMBOL" \in columns /\ row.BSE_SYMBOL /= NaN
               THEN LET bse_sym == strip(row.BSE_SYMBOL)
                    IN  IF bse_sym /= <<>> /\ bse_sym /= nan THEN <<bse_sym>> ELSE <<>>
               ELSE <<>>
        codes == preference(nse, bsc, bss)
        ticker == row.Ticker
    IN  IF codes /= <<>> THEN codes
        ELSE IF Truthy(ticker) /\ endswith(ticker, DotNS) THEN <<DropLast3(ticker)>>
        ELSE IF Truthy(ticker) /\ endswith(ticker, DotBO) THEN <<DropLast3(ticker)>>
        ELSE IF Truthy(ticker) /\ Contains(ticker, <<".">>) THEN <<SplitDotFirst(ticker)>>
        ELSE <<ticker>>

\* TICKER_TO_SCREENER_CODES after the loop over the rows: a later row of the
\* same ticker overwrites the earlier one.
RECURSIVE build_mapping(_, _, _)
build_mapping(columns, rows, acc) ==
    IF rows = <<>> THEN acc
    ELSE LET row == Head(rows)
             codes == row_codes(columns, row)
             keys == (DOMAIN acc) \cup {row.Ticker}
             next == [t \in keys |-> IF t = row.Ticker THEN codes ELSE acc[t]]
         IN  build_mapping(columns, Tail(rows),
                           IF codes /= <<>> THEN next ELSE acc)

csv_mapping(df) == build_mapping(df.columns, df.rows, [t \in {} |-> <<>>])

----------------------------------------------------------------------------
(* PageFetcher: requests.get against the external site                     *)

HOST == <<"h", "t", "t", "p", "s", ":", "/", "/", "w", "w", "w", ".",
          "s", "c", "r", "e", "e", "n", "e", "r", ".", "i", "n">>

screener_base(code) ==
    HOST \o <<"/", "c", "o", "m", "p", "a", "n", "y", "/">> \o code \o <<"/">>

consolidated_url(code) ==
    screener_base(code) \o <<"c", "o", "n", "s", "o", "l", "i", "d", "a", "t", "e", "d", "/">>

PAGE_NOT_FOUND == <<"p", "a", "g", "e", " ", "n", "o", "t", " ", "f", "o", "u", "n", "d">>

DOES_NOT_EXIST == <<"d", "o", "e", "s", " ", "n", "o", "t", " ", "e", "x", "i", "s", "t">>

S404 == <<"4", "0", "4">>

NOT_FOUND == <<"n", "o", "t", "-", "f", "o", "u", "n", "d">>

\* A response: kind "http" carries status, text and the final URL (after
\* redirects); kinds "timeout" and "error" are the exceptions requests raises.
HttpResponse(status, text, url) ==
    [kind |-> "http", status |-> status, text |-> text, url |-> url]

Raised(kind) == [kind |-> kind, status |-> 0, text |-> <<>>, url |-> <<>>]

\* Markup the lxml tree builder gives up on: BeautifulSoup(text, "lxml") raises
\* ParserRejectedMarkup, and pandas.read_html raises as well.
REJECTED_MARKUP == <<"~">>

parser_rejects(text) == Contains(text, REJECTED_MARKUP)

\* requests.get(url, allow_redirects=True): the site's answer for the URL.
requests_get(url) ==
    IF url \in DOMAIN site THEN site[url] ELSE HttpResponse(404, <<>>, url)

body_says_not_found(text) ==
    LET t == lower(text)
    IN  Contains(t, PAGE_NOT_FOUND) \/ Contains(t, DOES_NOT_EXIST)

url_says_not_found(url) ==
    Contains(lower(url), S404) \/ Contains(lower(url), NOT_FOUND)

\* The consolidated response is returned: status 200, no error phrase in the
\* body, and a final URL that is not a 404 page.
consolidated_accepts(resp) ==
    /\ resp.status = 200
    /\ ~body_says_not_found(resp.text)
    /\ ~url_says_not_found(resp.url)

\* standalone_accepts without the look at the body.
standalone_accepts_unchecked(resp_fallback) == resp_fallback.status = 200

\* The standalone response is returned: status 200 and no error phrase in the
\* body.
standalone_accepts(resp_fallback) ==
    /\ resp_fallback.status = 200
    /\ ~body_says_not_found(resp_fallback.text)

\* The standalone page tried after any status other than 200.
tries_standalone_unless_ok(resp) == resp.status /= 200

\* The "elif resp.status_code == 404" test on the consolidated response: the
\* standalone page is tried.
tries_standalone(resp) == resp.status = 404

\* A candidate passed over only when it is None.
skipped_when_none(code) == code = None

\* The "if not code: continue" test of the loop.
skipped(code) == ~Truthy(code)

\* The "for code in codes" loop from position i on; log collects the requests
\* issued, in order, with the responses they got.  A request that raises
\* (Timeout or any other exception) is caught and the loop continues.
RECURSIVE try_codes(_, _, _)
try_codes(codes, i, log) ==
    IF i > Len(codes) THEN [result |-> None, log |-> log]
    ELSE
    LET code == codes[i]
    IN  IF skipped(code) THEN try_codes(codes, i + 1, log)
        ELSE
        LET url  == consolidated_url(code)
            resp == requests_get(url)
            log1 == Append(log, [url |-> url, resp |-> resp])
        IN  IF resp.kind /= "http" THEN try_codes(codes, i + 1, log1)
            ELSE IF resp.status = 200 THEN
                IF consolidated_accepts(resp)
                THEN [result |-> resp.text, log |-> log1]
                ELSE try_codes(codes, i + 1, log1)
            ELSE IF tries_standalone(resp) THEN
                LET url_fallback  == screener_base(code)
                    resp_fallback == requests_get(url_fallback)
                    log2 == Append(log1, [url |-> url_fallback, resp |-> resp_fallback])
                IN  IF resp_fallback.kind /= "http" THEN try_codes(codes, i + 1, log2)
                    ELSE IF standalone_accepts(resp_fallback)
                         THEN [result |-> resp_fallback.text, log |-> log2]
                    ELSE try_codes(codes, i + 1, log2)
            ELSE try_codes(codes, i + 1, log1)

Reverse(q) == [i \in 1..Len(q) |-> q[Len(q) + 1 - i]]

\* fetch_screener_html trying the candidates last to first.
fetch_screener_html_backwards(symbol) ==
    LET codes == get_screener_codes_for_ticker(symbol)
    IN  IF codes = <<>> \/ codes[1] = None THEN [result |-> None, log |-> <<>>]
        ELSE try_codes(Reverse(codes), 1, <<>>)

\* The undecorated body of fetch_screener_html.
fetch_screener_html_uncached(symbol) ==
    LET codes == get_screener_codes_for_ticker(symbol)
    IN  IF codes = <<>> \/ codes[1] = None THEN [result |-> None, log |-> <<>>]
        ELSE try_codes(codes, 1, <<>>)

----------------------------------------------------------------------------
(* functools.lru_cache(maxsize): a list of entries, least recently used    *)
(* first.  The program's maxsize is 128; the model runs the same policy    *)
(* with a smaller capacity so that evictions happen within the bounds.     *)

maxsize == 2

cache_keys(cache) == {cache[i].key : i \in 1..Len(cache)}

cache_index(cache, key) == CHOOSE i \in 1..Len(cache) : cache[i].key = key

cache_get(cache, key) == cache[cache_index(cache, key)].val

\* cache_touch of a first-in-first-out cache: a hit leaves the order alone.
cache_touch_fifo(cache, key) == cache

\* A hit moves the entry to the most recently used end.
cache_touch(cache, key) ==
    LET i == cache_index(cache, key)
    IN  SubSeq(cache, 1, i - 1) \o SubSeq(cache, i + 1, Len(cache)) \o <<cache[i]>>

\* cache_put that stores nothing when the result is None.
cache_put_skip_none(cache, key, val) ==
    LET full == Append(cache, [key |-> key, val |-> val])
    IN  IF val = None THEN cache
        ELSE IF Len(full) > maxsize THEN Tail(full) ELSE full

\* A miss stores the result, evicting the least recently used entry when full.
cache_put(cache, key, val) ==
    LET full == Append(cache, [key |-> key, val |-> val])
    IN  IF Len(full) > maxsize THEN Tail(full) ELSE full

\* fetch_screener_html as decorated: the result, the requests issued, and the
\* cache afterwards.
fetch_screener_html(cache, symbol) ==
    IF symbol \in cache_keys(cache)
    THEN [result |-> cache_get(cache, symbol), log |-> <<>>, hit |-> TRUE,
          cache |-> cache_touch(cache, symbol)]
    ELSE LET r == fetch_screener_html_uncached(symbol)
         IN  [result |-> r.result, log |-> r.log, hit |-> FALSE,
              cache |-> cache_put(cache, symbol, r.result)]

----------------------------------------------------------------------------
(* Observation of the calls: what the latest call did, and per ticker what  *)
(* its calls of fetch_screener_html have done so far                       *)

\* hist[t]: called  - fetch_screener_html(t) has been called
\*          ret     - what its latest call returned
\*          since   - the other tickers fetch_screener_html was called on since
\*          passes  - calls of t that went to the network
\*          regaps  - calls of t made after maxsize or more other tickers
\*          origin  - the response whose body ret is (NoResponse when ret is
\*                    None or no request was made)
NoResponse == [kind |-> "none", status |-> 0, text |-> <<>>, url |-> <<>>]

NoHist ==
    [called |-> FALSE, ret |-> None, since |-> {}, passes |-> 0, regaps |-> 0,
     origin |-> NoResponse]

hist_after(h, symbol, r) ==
    [t \in DOMAIN h |->
        IF t = symbol
        THEN [called |-> TRUE,
              ret    |-> r.result,
              origin |-> IF r.hit THEN h[t].origin
                         ELSE IF r.result /= None THEN r.log[Len(r.log)].resp
                         ELSE NoResponse,
              since  |-> {},
              passes |-> h[t].passes + (IF r.log /= <<>> THEN 1 ELSE 0),
              regaps |-> h[t].regaps +
                         (IF h[t].called /\ Cardinality(h[t].since) >= maxsize
                          THEN 1 ELSE 0)]
        ELSE IF h[t].called
             THEN [h[t] EXCEPT !.since = h[t].since \cup {symbol}]
             ELSE h[t]]

----------------------------------------------------------------------------
(* The parsers: what BeautifulSoup, pandas.read_html and Response.json     *)
(* make of a body.  A body is known by the element tree it parses to; the  *)
(* tree records just what the program looks up in it.                      *)

\* The mark of a lookup or a parse that raises.
RAISES == <<"raises">>

\* Response.json(): the body is no JSON and it raises; or the body is a
\* JSON object, which indexing by 0 makes raise KeyError; or it is a list of
\* entries, each a dict.
NoJson == [kind |-> "raises", list |-> <<>>]

JsonObject == [kind |-> "object", list |-> <<>>]

JsonList(entries) == [kind |-> "list", list |-> entries]

\* The tree of a body nothing is known about: no list items, no tables, no
\* headings, no quote elements, and no JSON in it.
EmptyDocument ==
    [li        |-> <<>>,     \* the <li> elements: each the texts of its <span>s
     tables    |-> <<>>,     \* the <table> elements as read_html delivers them
     headings  |-> <<>>,     \* the <h2>/<h3> elements: text, <li>s of the parent
     uls       |-> <<>>,     \* the <ul> elements: class names, <li>s
     price_div |-> None,     \* text of <div class="YMlKec fxKbKc">
     labels    |-> <<>>,     \* quote page: <<label, value or None or RAISES>>
     json      |-> NoJson,   \* what Response.json() gives
     idcrval   |-> None]     \* text of the element with id "idcrval"

\* BeautifulSoup(text, "lxml") for a body the tree builder accepts.
BeautifulSoup(text) ==
    IF text \in DOMAIN markup THEN markup[text] ELSE EmptyDocument

\* Response.json() of a body.
response_json(text) ==
    IF text \in DOMAIN markup THEN markup[text].json ELSE NoJson

\* s.replace(ch, "")
Remove(s, ch) == SelectSeq(s, LAMBDA c : c /= ch)

\* The currency glyph.
RUPEE == "#"

\* dict.get(key): the value stored under key, None without one.  A dict is a
\* sequence of <<key, value>> pairs with distinct keys.
dict_get(d, key) ==
    IF \E i \in 1..Len(d) : d[i][1] = key
    THEN d[CHOOSE i \in 1..Len(d) : d[i][1] = key][2]
    ELSE None

\* d[key] = value
dict_set(d, key, value) ==
    IF \E i \in 1..Len(d) : d[i][1] = key
    THEN [i \in 1..Len(d) |-> IF d[i][1] = key THEN <<key, value>> ELSE d[i]]
    ELSE Append(d, <<key, value>>)

----------------------------------------------------------------------------
(* FallbackSourceFetcher: the search engine's quote page                   *)

\* What a secondary fetcher did: none - it returned None; value - the dict
\* it returned otherwise; reqs - the URLs it requested, in order; caught -
\* "outer" when an exception ended it in its except clause, "inner" when one
\* was swallowed on the way, "no" without any; raised - it raised.
Returned(value, caught, reqs) ==
    [raised |-> FALSE, none |-> FALSE, value |-> value, caught |-> caught,
     reqs |-> reqs]

ReturnedNone(caught, reqs) ==
    [raised |-> FALSE, none |-> TRUE, value |-> <<>>, caught |-> caught,
     reqs |-> reqs]

NotCalled == ReturnedNone("no", <<>>)

\* The exception passed on to the caller.
on_exception_reraise(reqs) == [ReturnedNone("outer", reqs) EXCEPT !.raised = TRUE]

\* The "except Exception" clause of either function: the exception is printed
\* and None returned.
on_exception(reqs) == ReturnedNone("outer", reqs)

GF_QUOTE == <<"g", "o", "o", "g", "l", "e", ":">>

gf_url(symbol, exchange) == GF_QUOTE \o symbol \o <<":">> \o exchange

\* find_val(label): the text next to the label, None when the label is not in
\* the page; an exception inside the lookup is swallowed and gives None.
find_val(soup, label) ==
    LET v == dict_get(soup.labels, label)
    IN  IF v = RAISES THEN None ELSE v

\* The "Clean up" loop: every truthy value loses the glyph and its blanks.
gf_clean(data) ==
    [i \in 1..Len(data) |->
        IF Truthy(data[i][2])
        THEN <<data[i][1], strip(Remove(data[i][2], RUPEE))>>
        ELSE data[i]]

\* fetch_google_finance_metrics: value is the dict returned or None; reqs are
\* the URLs requested; caught tells that an exception was raised and handled
\* on the way (outer: by the function's except, inner: inside find_val); the
\* whole body is inside try/except Exception, so nothing is raised.
fetch_google_finance_metrics(symbol) ==
    LET url1  == gf_url(symbol, <<"N", "S", "E">>)
        url2  == gf_url(symbol, <<"B", "O", "M">>)
        resp1 == requests_get(url1)
    IN  IF resp1.kind /= "http"
        THEN on_exception(<<url1>>)
        ELSE
        LET second == resp1.status /= 200
            resp   == IF second THEN requests_get(url2) ELSE resp1
            reqs   == IF second THEN <<url1, url2>> ELSE <<url1>>
        IN  IF resp.kind /= "http"
            THEN on_exception(reqs)
            ELSE IF resp.status /= 200
            THEN ReturnedNone("no", reqs)
            ELSE IF parser_rejects(resp.text)
            THEN on_exception(reqs)
            ELSE
            LET soup  == BeautifulSoup(resp.text)
                data0 == IF Truthy(soup.price_div)
                         THEN << <<"Current Price", Remove(soup.price_div, RUPEE)>> >>
                         ELSE <<>>
                data  == data0 \o
                         << <<"Market Cap", find_val(soup, "Market cap")>>,
                            <<"P/E Ratio", find_val(soup, "P/E ratio")>>,
                            <<"52-Week High", find_val(soup, "52-wk high")>>,
                            <<"52-Week Low", find_val(soup, "52-wk low")>> >>
                inner == \E i \in 1..Len(soup.labels) : soup.labels[i][2] = RAISES
            IN  Returned(gf_clean(data), IF inner THEN "inner" ELSE "no", reqs)

----------------------------------------------------------------------------
(* FallbackSourceFetcher: the exchange's quote API and page                *)

BSE_API == <<"b", "s", "e", "-", "a", "p", "i", ":">>

BSE_PAGE == <<"b", "s", "e", "-", "p", "a", "g", "e", ":">>

\* The "Map BSE fields to our format" block for the first entry of the list.
bse_result_of(latest) ==
    (IF dict_get(latest, "CurrRate") /= None
     THEN << <<"Current Price", dict_get(latest, "CurrRate")>> >> ELSE <<>>) \o
    (IF dict_get(latest, "High") /= None
     THEN << <<"52-Week High", dict_get(latest, "High")>> >> ELSE <<>>) \o
    (IF dict_get(latest, "Low") /= None
     THEN << <<"52-Week Low", dict_get(latest, "Low")>> >> ELSE <<>>)

\* The "Alternative" part of fetch_bse_metrics: the stock page is requested
\* and scraped for the price.
bse_stock_page(bse_code, reqs, caught) ==
    LET stock_url == BSE_PAGE \o bse_code
        resp      == requests_get(stock_url)
        reqs1     == Append(reqs, stock_url)
    IN  IF resp.kind /= "http"
        THEN on_exception(reqs1)
        ELSE IF resp.status /= 200
        THEN ReturnedNone(caught, reqs1)
        ELSE IF parser_rejects(resp.text)
        THEN on_exception(reqs1)
        ELSE
        LET soup == BeautifulSoup(resp.text)
        IN  IF soup.idcrval /= None
            THEN Returned(<< <<"Current Price", Remove(soup.idcrval, ",")>> >>,
                          caught, reqs1)
            ELSE ReturnedNone(caught, reqs1)

\* fetch_bse_metrics: the JSON API first.  A list whose first entry exists
\* ends the function there, with the mapped fields or with None when it has
\* none of them; a body that is no JSON, an empty list, or an object (the
\* bare except swallows what indexing it raises) leads on to the stock page.
fetch_bse_metrics(bse_code) ==
    LET api_url == BSE_API \o bse_code
        resp    == requests_get(api_url)
    IN  IF resp.kind /= "http"
        THEN on_exception(<<api_url>>)
        ELSE IF resp.status /= 200
        THEN bse_stock_page(bse_code, <<api_url>>, "no")
        ELSE
        LET data_json == response_json(resp.text)
        IN  IF data_json.kind \in {"raises", "object"}
            THEN bse_stock_page(bse_code, <<api_url>>, "inner")
            ELSE IF data_json.list = <<>>
            THEN bse_stock_page(bse_code, <<api_url>>, "no")
            ELSE
            LET result == bse_result_of(data_json.list[1])
            IN  IF result /= <<>> THEN Returned(result, "no", <<api_url>>)
                ELSE ReturnedNone("no", <<api_url>>)

----------------------------------------------------------------------------
(* Numbers: a float is kept as the exact fraction n / d of the decimal     *)
(* text it was read from, d a power of ten (or any positive integer after  *)
(* arithmetic); nan is a value of its own                                  *)

DigitChars == <<"0", "1", "2", "3", "4", "5", "6", "7", "8", "9">>

DigitVal(c) == (CHOOSE i \in 1..10 : DigitChars[i] = c) - 1

RECURSIVE Pow10(_)
Pow10(k) == IF k = 0 THEN 1 ELSE 10 * Pow10(k - 1)

\* int(digits) for a sequence of digit characters, 0 for the empty one.
RECURSIVE to_int(_)
to_int(digits) ==
    IF digits = <<>> THEN 0
    ELSE 10 * to_int(SubSeq(digits, 1, Len(digits) - 1)) + DigitVal(digits[Len(digits)])

\* str(n) for a natural number.
RECURSIVE int_str(_)
int_str(n) ==
    IF n < 10 THEN <<DigitChars[n + 1]>>
    ELSE Append(int_str(n \div 10), DigitChars[(n % 10) + 1])

Num(n, d) == [kind |-> "num", n |-> n, d |-> d]

NanValue == [kind |-> "nan", n |-> 0, d |-> 1]

\* None where a float is expected.
NoneValue == [kind |-> "none", n |-> 0, d |-> 1]

\* The mark of float() raising ValueError.
NoFloat == [kind |-> "raises", n |-> 0, d |-> 1]

Abs(x) == IF x < 0 THEN -x ELSE x

\* The length of the longest prefix of s all of whose characters are in set.
RECURSIVE run_length(_, _)
run_length(s, set) ==
    IF s /= <<>> /\ Head(s) \in set THEN 1 + run_length(Tail(s), set) ELSE 0

\* float(text) for a text made of an integer part (digits; commas already
\* removed) and an optional "." with a fraction, negative when neg.
decimal_value(neg, whole, frac) ==
    LET n == to_int(whole) * Pow10(Len(frac)) + to_int(frac)
    IN  Num(IF neg THEN -n ELSE n, Pow10(Len(frac)))

\* _num(s): None for a falsy s or one without a digit; else the float of the
\* leftmost match of -?\d[\d,]*(?:\.\d+)? with its commas removed.
_num(s) ==
    IF ~Truthy(s) THEN NoneValue
    ELSE IF ~\E i \in 1..Len(s) : s[i] \in Digits THEN NoneValue
    ELSE
    LET first == CHOOSE i \in 1..Len(s) :
                     s[i] \in Digits /\ \A j \in 1..(i - 1) : s[j] \notin Digits
        neg   == first > 1 /\ s[first - 1] = "-"
        rest  == SubSeq(s, first, Len(s))
        w     == run_length(rest, Digits \cup {","})
        after == SubSeq(rest, w + 1, Len(rest))
        f     == IF after /= <<>> /\ Head(after) = "."
                 THEN run_length(Tail(after), Digits) ELSE 0
    IN  decimal_value(neg, Remove(SubSeq(rest, 1, w), ","),
                      SubSeq(after, 2, f + 1))

\* float(text): the decimal literals [+-]digits[.digits] and "nan" in any
\* case, blanks around them ignored; NoFloat (ValueError) for any other text.
py_float(text) ==
    LET t      == strip(text)
        signed == t /= <<>> /\ t[1] \in {"+", "-"}
        body   == IF signed THEN Tail(t) ELSE t
        w      == run_length(body, Digits)
        after  == SubSeq(body, w + 1, Len(body))
        frac   == IF after /= <<>> /\ Head(after) = "." THEN Tail(after) ELSE <<>>
    IN  IF lower(body) = <<"n", "a", "n">> THEN NanValue
        ELSE IF w + Len(frac) = 0 THEN NoFloat
        ELSE IF after /= <<>> /\ Head(after) /= "." THEN NoFloat
        ELSE IF \E i \in 1..Len(frac) : frac[i] \notin Digits THEN NoFloat
        ELSE decimal_value(signed /\ t[1] = "-", SubSeq(body, 1, w), frac)

\* f"{x:.{places}f}" for x = n / d with d > 0: x rounded to the nearest
\* multiple of 10^-places, an exact half to the even neighbour.
fmt_fixed(n, d, places) ==
    LET scaled == Abs(n) * Pow10(places)
        q0     == scaled \div d
        r      == scaled % d
        q      == IF 2 * r > d \/ (2 * r = d /\ q0 % 2 = 1) THEN q0 + 1 ELSE q0
        whole  == int_str(q \div Pow10(places))
        digits == int_str(q % Pow10(places))
        pad    == [i \in 1..(places - Len(digits)) |-> "0"]
    IN  (IF n < 0 THEN <<"-">> ELSE <<>>) \o whole \o
        (IF places > 0 THEN <<".">> \o pad \o digits ELSE <<>>)

----------------------------------------------------------------------------
(* StatementTableLocator: a table is [columns, rows], a row the sequence   *)
(* of its cells, a cell a text or NaN (an empty cell)                      *)

\* str(cell)
cell_str(cell) == IF cell = NaN THEN nan ELSE cell

\* pandas.read_html(html_text): the list of the tables of the body; it
\* raises when the body has no table or the parser gives it up.
read_html(html_text) ==
    IF parser_rejects(html_text) \/ BeautifulSoup(html_text).tables = <<>>
    THEN [raised |-> TRUE, list |-> <<>>]
    ELSE [raised |-> FALSE, list |-> BeautifulSoup(html_text).tables]

\* None where a table is expected, and a table found.
NoTable == [found |-> FALSE, columns |-> <<>>, rows |-> <<>>]

Found(t) == [found |-> TRUE, columns |-> t.columns, rows |-> t.rows]

\* first_col.str.contains(pat, case=False) for one cell.
str_contains(text, pat) == Contains(lower(text), lower(pat))

\* any(first_col.str.contains(pat, case=False)), first_col being
\* t.iloc[:, 0].astype(str).
first_col_contains(t, pat) ==
    \E i \in 1..Len(t.rows) : str_contains(cell_str(t.rows[i][1]), pat)

\* find_table taking the last table that has both.
find_table_last(tables, pat1, pat2) ==
    LET hits == {i \in 1..Len(tables) :
                     first_col_contains(tables[i], pat1) /\
                     first_col_contains(tables[i], pat2)}
    IN  IF hits = {} THEN 0 ELSE CHOOSE i \in hits : \A j \in hits : i >= j

\* The "for t in tables" loop of the two-substring locators: the position of
\* the first table whose first column has both, 0 when there is none.  The
\* patterns of the program have no regular-expression metacharacter.
find_table(tables, pat1, pat2) ==
    LET hits == {i \in 1..Len(tables) :
                     first_col_contains(tables[i], pat1) /\
                     first_col_contains(tables[i], pat2)}
    IN  IF hits = {} THEN 0 ELSE CHOOSE i \in hits : \A j \in hits : i <= j

\* The body shared by parse_pl_table, parse_bs_table and parse_cf_table.
locate(html_text, pat1, pat2) ==
    LET tables == read_html(html_text)
    IN  IF tables.raised THEN NoTable
        ELSE IF find_table(tables.list, pat1, pat2) = 0 THEN NoTable
        ELSE Found(tables.list[find_table(tables.list, pat1, pat2)])

SALES == <<"S", "a", "l", "e", "s">>

NET_PROFIT == <<"N", "e", "t", " ", "P", "r", "o", "f", "i", "t">>

EQUITY_CAPITAL == <<"E", "q", "u", "i", "t", "y", " ", "C", "a", "p", "i", "t", "a", "l">>

TOTAL_ASSETS == <<"T", "o", "t", "a", "l", " ", "A", "s", "s", "e", "t", "s">>

CASH_FROM_OPERATING ==
    <<"C", "a", "s", "h", " ", "f", "r", "o", "m", " ", "O", "p", "e", "r", "a", "t",
      "i", "n", "g", " ", "A", "c", "t", "i", "v", "i", "t", "y">>

NET_CASH_FLOW == <<"N", "e", "t", " ", "C", "a", "s", "h", " ", "F", "l", "o", "w">>

PROMOTERS == <<"P", "r", "o", "m", "o", "t", "e", "r", "s">>

PROMOTER == <<"P", "r", "o", "m", "o", "t", "e", "r">>

parse_pl_table(html_text) == locate(html_text, SALES, NET_PROFIT)

parse_bs_table(html_text) == locate(html_text, EQUITY_CAPITAL, TOTAL_ASSETS)

parse_cf_table(html_text) == locate(html_text, CASH_FROM_OPERATING, NET_CASH_FLOW)

\* The first table whose first column has "Promoters" or "Promoter".
parse_shareholding_table(html_text) ==
    LET tables == read_html(html_text)
        hits   == IF tables.raised THEN {}
                  ELSE {i \in 1..Len(tables.list) :
                            first_col_contains(tables.list[i], PROMOTERS) \/
                            first_col_contains(tables.list[i], PROMOTER)}
    IN  IF hits = {} THEN NoTable
        ELSE Found(tables.list[CHOOSE i \in hits : \A j \in hits : i <= j])

----------------------------------------------------------------------------
(* MetricsExtractor behind its own lru_cache                               *)

N_A == <<"N", "/", "A">>

\* The labels of the key metrics list that are kept.
KEY_LABELS ==
    {"Market Cap", "Current Price", "High / Low", "High/Low", "Stock P/E", "P/E",
     "Book Value", "Dividend Yield", "ROCE", "ROCE 3Yr", "ROE", "ROE 3Yr",
     "Face Value", "Price to Book value", "Price to book"}

\* The "for li in soup.find_all('li')" loop: an item with two spans or more
\* and a kept label stores its second span under its first, a later item
\* replacing an earlier one with the same label.
RECURSIVE key_vals_of(_, _)
key_vals_of(items, key_vals) ==
    IF items = <<>> THEN key_vals
    ELSE LET spans == Head(items)
         IN  key_vals_of(Tail(items),
                 IF Len(spans) >= 2 /\ spans[1] \in KEY_LABELS
                 THEN dict_set(key_vals, spans[1], spans[2])
                 ELSE key_vals)

\* get_any(*labels): the value of the first label that is in key_vals.
get_any(key_vals, labels) ==
    LET there == {i \in 1..Len(labels) :
                      \E k \in 1..Len(key_vals) : key_vals[k][1] = labels[i]}
    IN  IF there = {} THEN None
        ELSE dict_get(key_vals, labels[CHOOSE i \in there : \A j \in there : i <= j])

\* s.split("/")
RECURSIVE split_slash(_, _)
split_slash(s, part) ==
    IF s = <<>> THEN <<part>>
    ELSE IF Head(s) = "/" THEN <<part>> \o split_slash(Tail(s), <<>>)
    ELSE split_slash(Tail(s), Append(part, Head(s)))

\* The value as it is, None included.
nz_unchanged(x) == x

\* nz(x)
nz(x) == IF x /= None THEN x ELSE N_A

\* pct_fmt(x): x is None, nan or a number.
pct_fmt(x) ==
    IF x.kind = "none" THEN N_A
    ELSE IF x.kind = "nan" THEN nan \o <<" ", "%">>
    ELSE fmt_fixed(x.n, x.d, 1) \o <<" ", "%">>

\* yoy(row_name) on the table indexed by its first column, cols being the
\* names of the other columns: None when the row is absent, when the label or
\* a column name is there more than once (the lookup then gives no scalar and
\* float() raises), when a cell is no float literal, or when prev is 0.
yoy(pl_df, row_name) ==
    LET cols  == Tail(pl_df.columns)
        prev  == Len(cols) - 2
        last  == Len(cols) - 1
        named == {i \in 1..Len(pl_df.rows) : pl_df.rows[i][1] = row_name}
        twice(c) == \E j \in 1..Len(cols) : j /= c /\ cols[j] = cols[c]
    IN  IF named = {} THEN NoneValue
        ELSE IF Cardinality(named) > 1 \/ twice(prev) \/ twice(last) THEN NoneValue
        ELSE CHOOSE out \in
            {IF prev_f.kind = "raises" \/ last_f.kind = "raises" THEN NoneValue
             ELSE IF prev_f.kind = "nan" THEN NanValue
             ELSE IF prev_f.n = 0 THEN NoneValue
             ELSE IF last_f.kind = "nan" THEN NanValue
             ELSE IF prev_f.n * last_f.d < 0
             THEN Num(-((last_f.n * prev_f.d - prev_f.n * last_f.d) * 100),
                      -(prev_f.n * last_f.d))
             ELSE Num((last_f.n * prev_f.d - prev_f.n * last_f.d) * 100,
                      prev_f.n * last_f.d) :
             prev_f \in {py_float(Remove(cell_str(
                             pl_df.rows[CHOOSE i \in named : TRUE][prev + 1]), ","))},
             last_f \in {py_float(Remove(cell_str(
                             pl_df.rows[CHOOSE i \in named : TRUE][last + 1]), ","))}} : TRUE

\* The "YoY from Profit & Loss table" block: <<yoy_sales, yoy_profit>>; every
\* exception inside it is swallowed.
yoy_of(html_text) ==
    CHOOSE out \in
        {IF tables.raised THEN <<NoneValue, NoneValue>>
         ELSE IF find_table(tables.list, SALES, NET_PROFIT) = 0
         THEN <<NoneValue, NoneValue>>
         ELSE IF Len(tables.list[find_table(tables.list, SALES, NET_PROFIT)].columns) - 1 >= 3
         THEN <<yoy(tables.list[find_table(tables.list, SALES, NET_PROFIT)], SALES),
                yoy(tables.list[find_table(tables.list, SALES, NET_PROFIT)], NET_PROFIT)>>
         ELSE <<NoneValue, NoneValue>> :
         tables \in {read_html(html_text)}} : TRUE

\* cp_num / bv_num to two places, None unless both are numbers and the
\* divisor is not 0.
quotient(cp_num, bv_num) ==
    IF cp_num.kind = "num" /\ bv_num.kind = "num" /\ bv_num.n /= 0
    THEN fmt_fixed((IF bv_num.n < 0 THEN -1 ELSE 1) * cp_num.n * bv_num.d,
                   cp_num.d * Abs(bv_num.n), 2)
    ELSE None

\* price_book with the quotient taken first and the scraped value second.
price_book_computed_first(pb_raw, current_price, book_value) ==
    CHOOSE out \in
        {IF q /= None THEN q ELSE pb_raw :
         q \in {CHOOSE x \in {quotient(cp_num, bv_num) :
                                  cp_num \in {_num(current_price)},
                                  bv_num \in {_num(book_value)}} : TRUE}} : TRUE

\* The "Price / Book" block: the scraped value when there is one, else the
\* quotient of the two numbers when both are there and the divisor is not 0.
price_book(pb_raw, current_price, book_value) ==
    IF pb_raw /= None THEN pb_raw
    ELSE CHOOSE out \in {quotient(cp_num, bv_num) :
                             cp_num \in {_num(current_price)},
                             bv_num \in {_num(book_value)}} : TRUE

\* The "52 week high/low" block: <<high_52, low_52>>.
high_low_of(high_low, high_52, low_52) ==
    IF Truthy(high_low) /\ ~Truthy(high_52)
    THEN LET parts == split_slash(Remove(high_low, RUPEE), <<>>)
         IN  IF Len(parts) = 2 THEN <<strip(parts[1]), strip(parts[2])>>
             ELSE <<high_52, low_52>>
    ELSE <<high_52, low_52>>

\* The record returned for a document, from the values read and patched.
\* The "Links" entry, built from the ticker alone, is left out.
metrics_record(v, pb, hl, yy) ==
    << <<"Market Cap", nz(v.mcap)>>,
       <<"Current Price", nz(v.current_price)>>,
       <<"P/E Ratio", nz(v.pe)>>,
       <<"Book Value", nz(v.book_value)>>,
       <<"Price / Book", nz(pb)>>,
       <<"Dividend Yield", nz(v.dy)>>,
       <<"ROCE", nz(v.roce)>>,
       <<"ROE", nz(v.roe)>>,
       <<"Face Value", nz(v.fv)>>,
       <<"52-Week High", nz(hl[1])>>,
       <<"52-Week Low", nz(hl[2])>>,
       <<"Sales YoY %", pct_fmt(yy[1])>>,
       <<"Net Profit YoY %", pct_fmt(yy[2])>> >>

\* The record returned when only the exchange had data.
bse_record(bse_data) ==
    LET get(key) == IF dict_get(bse_data, key) /= None
                    THEN dict_get(bse_data, key) ELSE N_A
    IN  << <<"Market Cap", N_A>>,
           <<"Current Price", get("Current Price")>>,
           <<"P/E Ratio", N_A>>,
           <<"Book Value", N_A>>,
           <<"Price / Book", N_A>>,
           <<"Dividend Yield", N_A>>,
           <<"ROCE", N_A>>,
           <<"ROE", N_A>>,
           <<"Face Value", N_A>>,
           <<"52-Week High", get("52-Week High")>>,
           <<"52-Week Low", get("52-Week Low")>>,
           <<"Sales YoY %", N_A>>,
           <<"Net Profit YoY %", N_A>> >>

\* The values read from the key metrics list of the document.
primary_values(soup) ==
    CHOOSE out \in
        {[mcap          |-> get_any(key_vals, <<"Market Cap">>),
          current_price |-> get_any(key_vals, <<"Current Price">>),
          high_low      |-> get_any(key_vals, <<"High / Low", "High/Low">>),
          pe            |-> get_any(key_vals, <<"Stock P/E", "P/E">>),
          book_value    |-> get_any(key_vals, <<"Book Value">>),
          dy            |-> get_any(key_vals, <<"Dividend Yield">>),
          roce          |-> get_any(key_vals, <<"ROCE", "ROCE 3Yr">>),
          roe           |-> get_any(key_vals, <<"ROE", "ROE 3Yr">>),
          fv            |-> get_any(key_vals, <<"Face Value">>),
          pb_raw        |-> get_any(key_vals, <<"Price to Book value", "Price to book">>),
          high_52       |-> None,
          low_52        |-> None] :
         key_vals \in {key_vals_of(soup.li, <<>>)}} : TRUE

\* The "Google Finance Fallback" block: with gf_data truthy, each of the five
\* values that is falsy takes what gf_data has under its name.
google_patch(v, gf) ==
    IF gf.none \/ gf.value = <<>> THEN v
    ELSE LET gf_data == gf.value IN
         [v EXCEPT
            !.mcap = IF ~Truthy(v.mcap) THEN dict_get(gf_data, "Market Cap") ELSE @,
            !.current_price = IF ~Truthy(v.current_price)
                              THEN dict_get(gf_data, "Current Price") ELSE @,
            !.pe = IF ~Truthy(v.pe) THEN dict_get(gf_data, "P/E Ratio") ELSE @,
            !.high_52 = IF ~Truthy(v.high_52)
                        THEN dict_get(gf_data, "52-Week High") ELSE @,
            !.low_52 = IF ~Truthy(v.low_52)
                       THEN dict_get(gf_data, "52-Week Low") ELSE @]

\* The fallback asked whenever one of three values is missing.
any_key_missing(v0) ==
    ~Truthy(v0.mcap) \/ ~Truthy(v0.current_price) \/ ~Truthy(v0.pe)

\* The "if not mcap or not current_price" test before the fallback.
key_metrics_missing(v0) == ~Truthy(v0.mcap) \/ ~Truthy(v0.current_price)

\* fetch_screener_metrics from "soup = BeautifulSoup(html_text)" on, for a
\* document the parser accepts: the record and the secondary requests made.
metrics_of_document(html_text, symbol) ==
    CHOOSE out \in
        UNION {UNION {{[value |-> metrics_record(
                                      v,
                                      price_book(v.pb_raw, v.current_price, v.book_value),
                                      high_low_of(v.high_low, v.high_52, v.low_52),
                                      yoy_of(html_text)),
                        reqs  |-> gf.reqs] :
                       v \in {google_patch(v0, gf)}} :
                      gf \in {IF key_metrics_missing(v0)
                              THEN fetch_google_finance_metrics(symbol)
                              ELSE NotCalled}} :
               v0 \in {primary_values(BeautifulSoup(html_text))}} : TRUE

\* The first all-digit candidate of the ticker, None without one.
numeric_code(symbol) ==
    LET codes   == get_screener_codes_for_ticker(symbol)
        numeric == {i \in 1..Len(codes) : Truthy(codes[i]) /\ isdigit(codes[i])}
    IN  IF numeric = {} THEN None
        ELSE codes[CHOOSE i \in numeric : \A j \in numeric : i <= j]

\* The "BSE Fallback" block for a ticker without a document: the record made
\* of the exchange's data, the empty dict without such data, and the requests
\* made; only a ticker with an all-digit candidate is looked up.
exchange_only(symbol) ==
    CHOOSE out \in
        {[value |-> IF ~bse.none /\ bse.value /= <<>>
                    THEN bse_record(bse.value) ELSE <<>>,
          reqs  |-> bse.reqs] :
         bse \in {IF Truthy(numeric_code(symbol))
                  THEN fetch_bse_metrics(numeric_code(symbol))
                  ELSE NotCalled}} : TRUE

\* What fetch_screener_metrics does with the document fetched: value is the
\* record, raised tells that the parser gave the markup up.
metrics_of_fetched(html_text, symbol) ==
    IF ~Truthy(html_text)
    THEN CHOOSE out \in
             {[raised |-> FALSE, value |-> x.value, secondary |-> x.reqs] :
              x \in {exchange_only(symbol)}} : TRUE
    ELSE IF parser_rejects(html_text)
    THEN [raised |-> TRUE, value |-> <<>>, secondary |-> <<>>]
    ELSE CHOOSE out \in
             {[raised |-> FALSE, value |-> m.value, secondary |-> m.reqs] :
              m \in {metrics_of_document(html_text, symbol)}} : TRUE

\* The undecorated body of fetch_screener_metrics: it fetches the document
\* through fetch_screener_html's cache, and either returns a record (the
\* empty dict when there is neither a document nor exchange data) or raises;
\* secondary are the requests made to the secondary sources.
fetch_screener_metrics_uncached(hcache, h, symbol) ==
    CHOOSE out \in
        UNION {{[raised |-> m.raised, value |-> m.value, secondary |-> m.secondary,
                 html_text |-> r.result, log |-> r.log,
                 html_cache |-> r.cache, hist |-> hist_after(h, symbol, r)] :
                m \in {metrics_of_fetched(r.result, symbol)}} :
               r \in {fetch_screener_html(hcache, symbol)}} : TRUE

\* fetch_screener_metrics as decorated; a call that raises stores nothing.
fetch_screener_metrics(mcache, hcache, h, symbol) ==
    IF symbol \in cache_keys(mcache)
    THEN [raised |-> FALSE, value |-> cache_get(mcache, symbol),
          secondary |-> <<>>, hit |-> TRUE,
          html_text |-> IF symbol \in DOMAIN h THEN h[symbol].ret ELSE None,
          log |-> <<>>,
          metrics_cache |-> cache_touch(mcache, symbol),
          html_cache |-> hcache, hist |-> h]
    ELSE CHOOSE out \in
             {[raised |-> m.raised, value |-> m.value,
               secondary |-> m.secondary, hit |-> FALSE,
               html_text |-> m.html_text, log |-> m.log,
               metrics_cache |-> IF m.raised THEN mcache
                                 ELSE cache_put(mcache, symbol, m.value),
               html_cache |-> m.html_cache, hist |-> m.hist] :
              m \in {fetch_screener_metrics_uncached(hcache, h, symbol)}} : TRUE

----------------------------------------------------------------------------
(* AnnouncementsExtractor: an <li> is [linked, a, text]: linked tells that  *)
(* it has a link, a is that link's text and href, text the item's text     *)

ANNOUNCEMENT == <<"a", "n", "n", "o", "u", "n", "c", "e", "m", "e", "n", "t">>

HTTP == <<"h", "t", "t", "p">>

startswith(s, prefix) ==
    Len(s) >= Len(prefix) /\ SubSeq(s, 1, Len(prefix)) = prefix

\* " ".join(parts)
RECURSIVE join_blank(_)
join_blank(parts) ==
    IF parts = <<>> THEN <<>>
    ELSE IF Len(parts) = 1 THEN parts[1]
    ELSE parts[1] \o <<" ">> \o join_blank(Tail(parts))

\* s.replace(sub, "")
RECURSIVE replace_all(_, _)
replace_all(s, sub) ==
    IF sub = <<>> \/ Len(s) < Len(sub) THEN s
    ELSE IF SubSeq(s, 1, Len(sub)) = sub
         THEN replace_all(SubSeq(s, Len(sub) + 1, Len(s)), sub)
    ELSE <<Head(s)>> \o replace_all(Tail(s), sub)

\* re.split(r"\s+-\s+", raw_title, maxsplit=1): cut at the leftmost hyphen
\* that has blanks on both sides, those blanks dropped.
split_title(raw_title) ==
    LET blanks(p) == run_length(SubSeq(raw_title, p, Len(raw_title)), {" "})
        starts == {p \in 1..Len(raw_title) :
                       /\ raw_title[p] = " "
                       /\ p + blanks(p) + 1 <= Len(raw_title)
                       /\ raw_title[p + blanks(p)] = "-"
                       /\ raw_title[p + blanks(p) + 1] = " "}
    IN  IF starts = {} THEN <<raw_title>>
        ELSE LET p == CHOOSE q \in starts : \A o \in starts : q <= o
                 e == p + blanks(p) + 1
             IN  <<SubSeq(raw_title, 1, p - 1),
                   SubSeq(raw_title, e + blanks(e), Len(raw_title))>>

\* The dict appended for one <li> that has a link.
announcement_item(li) ==
    LET raw_title == li.a.text
        parts     == split_title(raw_title)
        short_title   == strip(parts[1])
        rest_in_title == IF Len(parts) = 2 THEN strip(parts[2]) ELSE <<>>
        after_text    == strip(replace_all(li.text, raw_title))
        detail == IF rest_in_title /= <<>> /\ after_text /= <<>>
                  THEN rest_in_title \o <<" ", "-", " ">> \o after_text
                  ELSE rest_in_title \o after_text
        href   == li.a.href
    IN  [title  |-> short_title,
         detail |-> detail,
         url    |-> IF Truthy(href) /\ ~startswith(href, HTTP)
                    THEN HOST \o href ELSE href]

\* The scan root: the <li>s under the parent of the first <h2>/<h3> whose text
\* has "announcement", else those of the first <ul> whose class has it; not
\* found without either.
ann_section_of(soup) ==
    LET hs == {i \in 1..Len(soup.headings) :
                   Contains(lower(strip(soup.headings[i].text)), ANNOUNCEMENT)}
        us == {i \in 1..Len(soup.uls) :
                   Contains(lower(join_blank(soup.uls[i].class)), ANNOUNCEMENT)}
    IN  IF hs /= {}
        THEN [found |-> TRUE,
              li |-> soup.headings[CHOOSE i \in hs : \A j \in hs : i <= j].li]
        ELSE IF us /= {}
        THEN [found |-> TRUE,
              li |-> soup.uls[CHOOSE i \in us : \A j \in us : i <= j].li]
        ELSE [found |-> FALSE, li |-> <<>>]

\* find_all("li") without a limit.
find_all_li_unlimited(items, max_items) == items

\* find_all("li", limit=max_items): the first max_items of them, all of them
\* when the limit is 0.
find_all_li(items, max_items) ==
    IF max_items = 0 \/ Len(items) <= max_items THEN items
    ELSE SubSeq(items, 1, max_items)

\* parse_announcements raises when the parser gives the markup up.
parse_announcements_raises(html_text) == parser_rejects(html_text)

\* parse_announcements(html_text, max_items) for a body the parser accepts.
parse_announcements(html_text, max_items) ==
    LET ann_section == ann_section_of(BeautifulSoup(html_text))
    IN  IF ~ann_section.found THEN <<>>
        ELSE LET scanned == find_all_li(ann_section.li, max_items)
                 linked  == SelectSeq(scanned, LAMBDA li : li.linked)
             IN  [i \in 1..Len(linked) |-> announcement_item(linked[i])]

----------------------------------------------------------------------------
(* DashboardOrchestrator: the update_dashboard callback                    *)

\* The distinct truthy dropdown values, in order of first appearance.
RECURSIVE selected_symbols_from(_, _)
selected_symbols_from(values, acc) ==
    IF values = <<>> THEN acc
    ELSE LET val == Head(values)
         IN  selected_symbols_from(Tail(values),
                 IF Truthy(val) /\ \A i \in 1..Len(acc) : acc[i] /= val
                 THEN Append(acc, val) ELSE acc)

selected_symbols_of(selected_dropdown_values) ==
    selected_symbols_from(selected_dropdown_values, <<>>)

\* The rest of the loop body once fetch_screener_metrics has returned or
\* raised (m), for a ticker whose document html_text is truthy.
after_metrics(st, symbol, html_text, m) ==
    LET st1 == [st EXCEPT !.html_cache = m.html_cache, !.hist = m.hist,
                          !.metrics_cache = m.metrics_cache]
    IN  IF m.raised THEN [st1 EXCEPT !.raised = TRUE]
        ELSE
        LET st2 == [st1 EXCEPT
                      !.metrics_data = Append(st.metrics_data,
                                              [Symbol |-> symbol,
                                               fundamentals |-> m.value]),
                      !.sections = Append(st.sections, symbol),
                      !.documents = Append(st.documents, html_text)]
        IN  IF parse_announcements_raises(html_text)
            THEN [st2 EXCEPT !.raised = TRUE]
            ELSE [st2 EXCEPT !.ann_blocks = Append(st.ann_blocks, symbol)]

\* The rest of the loop body once fetch_screener_html has returned r.
after_fetch(st, symbol, r) ==
    LET h1 == hist_after(st.hist, symbol, r)
        html_text == r.result
    IN  IF ~Truthy(html_text)
        THEN [st EXCEPT !.html_cache = r.cache, !.hist = h1,
                        !.invalid = Append(st.invalid, symbol)]
        ELSE CHOOSE out \in
                 {after_metrics(st, symbol, html_text, m) :
                      m \in {fetch_screener_metrics(st.metrics_cache, r.cache, h1, symbol)}} :
                 TRUE

\* The body of "for symbol in selected_symbols" for one ticker: there is no
\* try/except around any step, so a step that raises ends the callback.
process_symbol(st, symbol) ==
    CHOOSE out \in
        {after_fetch(st, symbol, r) : r \in {fetch_screener_html(st.html_cache, symbol)}} :
        TRUE

RECURSIVE dashboard_loop(_, _)
dashboard_loop(symbols, st) ==
    IF symbols = <<>> \/ st.raised THEN st
    ELSE CHOOSE out \in
             {dashboard_loop(Tail(symbols), next) :
                  next \in {process_symbol(st, Head(symbols))}} :
             TRUE

update_dashboard(mcache, hcache, h, selected_dropdown_values) ==
    dashboard_loop(selected_symbols_of(selected_dropdown_values),
                   [html_cache |-> hcache, metrics_cache |-> mcache, hist |-> h,
                    metrics_data |-> <<>>, invalid |-> <<>>, sections |-> <<>>,
                    documents |-> <<>>, ann_blocks |-> <<>>, raised |-> FALSE])

----------------------------------------------------------------------------
(* The chat: GroqChatbot.generate_response and handle_chat_message         *)

\* The fixed part of the system prompt.
SYSTEM_PROMPT == <<"Y", "o", "u", " ", "a", "r", "e", " ", "a", "n", " ", "e", "x",
                   "p", "e", "r", "t">>

SORRY == <<"S", "o", "r", "r", "y", ",", " ", "I", " ", "e", "n", "c", "o", "u", "n",
           "t", "e", "r", "e", "d", " ", "a", "n", " ", "e", "r", "r", "o", "r", ":",
           " ">>

TRY_AGAIN == <<".", " ", "P", "l", "e", "a", "s", "e", " ", "t", "r", "y", " ", "a",
               "g", "a", "i", "n", ".">>

\* How many of the latest messages of the history go into a request.
HISTORY_WINDOW == 10

\* The exception's text alone.
apology_bare(e) == e

\* What the except clause returns for the exception e.
apology(e) == SORRY \o e \o TRY_AGAIN

Message(role, content) == [role |-> role, content |-> content]

\* build_stock_context(stocks_data), added to the prompt when there is stock
\* data: one line per stock; of a stock's lines the one naming it is kept.
RECURSIVE build_stock_context(_)
build_stock_context(stocks_data) ==
    IF stocks_data = <<>> THEN <<>>
    ELSE <<"\n">> \o Head(stocks_data).Symbol \o build_stock_context(Tail(stocks_data))

\* last_messages without its bound.
last_messages_all(history, n) == history

\* conversation_history[-n:]
last_messages(history, n) ==
    IF Len(history) <= n THEN history
    ELSE SubSeq(history, Len(history) - n + 1, Len(history))

\* generate_response(user_message, stocks_data) with llm, what the language
\* model does with the request: it replies with a content, or the call
\* raises an error.  The result tells the history afterwards, the messages
\* sent, and the string returned; nothing is raised, every exception being
\* caught by the function's except clause.
generate_response(history, user_message, stocks_data, llm) ==
    CHOOSE out \in
        {IF llm.kind = "reply"
         THEN [raised   |-> FALSE,
               history  |-> Append(history1, Message("assistant", llm.content)),
               messages |-> <<Message("system", system_prompt)>> \o
                            last_messages(history1, HISTORY_WINDOW),
               returned |-> llm.content]
         ELSE [raised   |-> FALSE,
               history  |-> history1,
               messages |-> <<Message("system", system_prompt)>> \o
                            last_messages(history1, HISTORY_WINDOW),
               returned |-> apology(llm.content)] :
         system_prompt \in {SYSTEM_PROMPT \o build_stock_context(stocks_data)},
         history1 \in {Append(history, Message("user", user_message))}} : TRUE

\* The "for symbol in unique_stocks" loop of handle_chat_message: a truthy
\* record is added to stocks_data; a call that raises is passed over.
RECURSIVE chat_stocks(_, _)
chat_stocks(symbols, st) ==
    IF symbols = <<>> THEN st
    ELSE LET symbol == Head(symbols)
         IN  IF ~Truthy(symbol) THEN chat_stocks(Tail(symbols), st)
             ELSE CHOOSE out \in
                 {chat_stocks(Tail(symbols),
                      [html_cache    |-> m.html_cache,
                       metrics_cache |-> m.metrics_cache,
                       hist          |-> m.hist,
                       stocks_data   |->
                           IF ~m.raised /\ m.value /= <<>>
                           THEN Append(st.stocks_data,
                                       [Symbol |-> symbol, metrics |-> m.value])
                           ELSE st.stocks_data]) :
                  m \in {fetch_screener_metrics(st.metrics_cache, st.html_cache,
                                                st.hist, symbol)}} : TRUE

\* handle_chat_message(user_message, chat_history, selected_stocks) past its
\* PreventUpdate guard.
handle_chat_message(mcache, hcache, h, history, store, user_message, selected_stocks, llm) ==
    CHOOSE out \in
        UNION {{[html_cache    |-> st.html_cache,
                 metrics_cache |-> st.metrics_cache,
                 hist          |-> st.hist,
                 history       |-> g.history,
                 messages      |-> g.messages,
                 ai_response   |-> g.returned,
                 chat_history  |-> (IF store = None THEN <<>> ELSE store) \o
                                   <<Message("user", user_message),
                                     Message("assistant", g.returned)>>] :
                g \in {generate_response(history, user_message, st.stocks_data, llm)}} :
               st \in {chat_stocks(selected_stocks,
                           [html_cache |-> hcache, metrics_cache |-> mcache,
                            hist |-> h, stocks_data |-> <<>>])}} : TRUE

----------------------------------------------------------------------------
(* Bounds and the inputs drawn within them                                 *)

MaxStemLen == 3

\* How many messages one chat session sends.
MaxExchanges == 6

MaxPasses == 2

StemAlphabet == {"A", "5", "."}

Suffixes == {<<>>, DotNS, DotBO, <<".", "n", "s">>, <<".", "B">>, <<"N", "S">>}

\* Every stem over the alphabet up to the length bound, followed by every
\* suffix; and None.
ResolveInputs ==
    {None} \cup
    {stem \o suffix : stem \in UNION {[1..n -> StemAlphabet] : n \in 0..MaxStemLen},
                      suffix \in Suffixes}

A_NS == <<"A", ".", "N", "S">>

N5_BO == <<"5", ".", "B", "O">>

B_BO == <<"B", ".", "B", "O">>

DOT_NS == <<".", "N", "S">>

EMPTY == <<>>

MaxSel == 3

EmptyMap == [t \in {} |-> <<>>]

\* Override tables in the two documented formats: a list of codes to try in
\* order, or a single string.
SpecialTables ==
    { EmptyMap,
      [t \in {A_NS} |-> [islist |-> TRUE, val |-> << <<"B">>, <<"A">> >>]],
      [t \in {A_NS} |-> [islist |-> FALSE, val |-> <<"B">>]] }

Row(ticker, nse, code, sym) ==
    [Ticker |-> ticker, NSE_SYMBOL |-> nse, BSE_CODE |-> code, BSE_SYMBOL |-> sym]

AllColumns == {"Ticker", "CompanyName", "NSE_SYMBOL", "BSE_CODE", "BSE_SYMBOL"}

\* Master lists: none loaded; one without the auxiliary columns; rows with all,
\* some or none of the auxiliary values.
MasterLists ==
    { [columns |-> {"Ticker", "CompanyName"}, rows |-> <<>>],
      [columns |-> {"Ticker", "CompanyName"},
       rows |-> << Row(A_NS, NaN, NaN, NaN), Row(N5_BO, NaN, NaN, NaN) >>],
      [columns |-> AllColumns,
       rows |-> << Row(A_NS, <<"A">>, <<"5", ".", "0">>, <<"A">>),
                   Row(N5_BO, NaN, <<"5">>, <<"B">>) >>],
      [columns |-> AllColumns,
       rows |-> << Row(A_NS, NaN, <<"5">>, <<" ", "B">>),
                   Row(B_BO, <<"n", "a", "n">>, <<"B", "5">>, NaN) >>],
      [columns |-> AllColumns,
       rows |-> << Row(A_NS, NaN, <<"5", ".", "7">>, <<" ", " ">>),
                   Row(N5_BO, NaN, <<".", "0">>, NaN) >>] }

\* What the site answers for one code: the kind of its consolidated page and
\* the kind of its standalone page.
DocText(code, variant) == code \o <<":">> \o variant

response_of(kind, url, code, variant) ==
    CASE kind = "ok"      -> HttpResponse(200, DocText(code, variant), url)
      [] kind = "empty"   -> HttpResponse(200, <<>>, url)
      [] kind = "bad"     -> HttpResponse(200, DocText(code, variant) \o REJECTED_MARKUP, url)
      [] kind = "near"    -> HttpResponse(200, <<"n", "o", "t", " ", "f", "o", "u", "n", "d">>, url)
      [] kind = "pnf"     -> HttpResponse(200, <<"P", "a", "g", "e", " ", "N", "o", "t", " ",
                                                  "F", "o", "u", "n", "d">>, url)
      [] kind = "dne"     -> HttpResponse(200, code \o <<" ", "D", "O", "E", "S", " ", "N", "O",
                                                  "T", " ", "E", "X", "I", "S", "T">>, url)
      [] kind = "to404"   -> HttpResponse(200, DocText(code, variant),
                                          HOST \o <<"/", "4", "0", "4", "/">>)
      [] kind = "tonf"    -> HttpResponse(200, DocText(code, variant),
                                          HOST \o <<"/", "N", "o", "t", "-", "F", "o", "u",
                                                    "n", "d", "/">>)
      [] kind = "404"     -> HttpResponse(404, <<"P", "a", "g", "e", " ", "n", "o", "t", " ",
                                                  "f", "o", "u", "n", "d">>, url)
      [] kind = "500"     -> HttpResponse(500, <<>>, url)
      [] kind = "timeout" -> Raised("timeout")
      [] kind = "error"   -> Raised("error")

CONS == <<"c">>

BASE == <<"s">>

SiteCodes == {<<"A">>, <<"5">>, <<"B">>}

SiteURLs == {consolidated_url(c) : c \in SiteCodes} \cup {screener_base(c) : c \in SiteCodes}

\* The site whose code c behaves as beh[c] = <<consolidated kind, standalone kind>>.
site_of(beh) ==
    [u \in SiteURLs |->
        LET c == CHOOSE c \in SiteCodes : u \in {consolidated_url(c), screener_base(c)}
        IN  IF c \in DOMAIN beh
            THEN IF u = consolidated_url(c)
                 THEN response_of(beh[c][1], u, c, CONS)
                 ELSE response_of(beh[c][2], u, c, BASE)
            ELSE HttpResponse(404, <<>>, u)]

ConsKinds == {"ok", "empty", "near", "pnf", "dne", "tonf", "500", "timeout", "error"}

StandKinds == {"ok", "near", "pnf", "dne", "to404", "404", "500", "error"}

Behaviours ==
    {<<k, "404">> : k \in ConsKinds} \cup {<<"404", k>> : k \in StandKinds}

HistTickers == {A_NS, N5_BO, B_BO, DOT_NS, EMPTY}

\* The threads of the server: each serves one callback at a time.
Threads == {1, 2}

\* A thread that serves no callback; in a callback, pc tells where the thread
\* is in its call of fetch_screener_html(symbol): "fetching" after a miss of
\* the cache, "fetched" once the body has returned result after the requests
\* of log.
Idle == [pc |-> "idle", symbol |-> None, result |-> None, log |-> <<>>]

\* The browser sessions: each has the page open, with a store of its own.
Sessions == {1, 2}

\* The record of a call not made yet.
NoCall ==
    [op |-> "none", symbol |-> None, codes |-> <<>>, result |-> None,
     log |-> <<>>, hit |-> FALSE, gap |-> -1, memo |-> None,
     selected |-> <<>>, metrics_data |-> <<>>, invalid |-> <<>>,
     sections |-> <<>>, documents |-> <<>>, ann_blocks |-> <<>>,
     raised |-> FALSE, metrics |-> <<>>, secondary |-> <<>>, html_text |-> None,
     fetcher |-> NotCalled, table |-> NoTable, which |-> "none",
     max_items |-> 0, items |-> <<>>,
     thread |-> 0, session |-> 0, user_message |-> None, llm |-> "none", messages |-> <<>>,
     ai_response |-> None, history_before |-> <<>>, store_before |-> None]

----------------------------------------------------------------------------
(* Actions                                                                 *)

\* The pending call of get_screener_codes_for_ticker(symbol) is made.
Resolve(symbol) ==
    /\ call.op = "pending"
    /\ call.symbol = symbol
    /\ call' = [NoCall EXCEPT !.op = "resolve", !.symbol = symbol,
                              !.codes = get_screener_codes_for_ticker(symbol)]
    /\ UNCHANGED <<config, threads, site, markup, html_cache, metrics_cache, chat, hist>>

\* A top-level call of fetch_screener_html(symbol).
FetchHtml(symbol) ==
    /\ hist[symbol].passes < MaxPasses
    /\ hist[symbol].regaps < MaxPasses
    /\ \E r \in {fetch_screener_html(html_cache, symbol)} :
           /\ html_cache' = r.cache
           /\ hist' = hist_after(hist, symbol, r)
           /\ call' = [NoCall EXCEPT
                         !.op = "fetch_screener_html",
                         !.symbol = symbol,
                         !.codes = get_screener_codes_for_ticker(symbol),
                         !.result = r.result,
                         !.log = r.log,
                         !.hit = r.hit,
                         !.gap = IF hist[symbol].called
                                 THEN Cardinality(hist[symbol].since) ELSE -1,
                         !.memo = hist[symbol].ret]
    /\ UNCHANGED <<config, threads, site, markup, metrics_cache, chat>>

\* The external site starts answering differently for one code.
SiteChange(code, beh) ==
    /\ LET new == site_of([c \in {code} |-> beh])
       IN  /\ site' = [u \in DOMAIN site |->
                          IF u \in {consolidated_url(code), screener_base(code)}
                          THEN new[u] ELSE site[u]]
           /\ site' /= site
    /\ UNCHANGED <<config, threads, markup, html_cache, metrics_cache, chat, call, hist>>

\* The record of the update_dashboard callback that ended in the state st.
dashboard_call(selected_dropdown_values, st) ==
    IF st.raised
    THEN [NoCall EXCEPT !.op = "update_dashboard",
                        !.selected = selected_dropdown_values,
                        !.raised = TRUE]
    ELSE [NoCall EXCEPT !.op = "update_dashboard",
                        !.selected = selected_dropdown_values,
                        !.metrics_data = st.metrics_data,
                        !.invalid = st.invalid,
                        !.sections = st.sections,
                        !.documents = st.documents,
                        !.ann_blocks = st.ann_blocks]

\* A dropdown is given another value: the update_dashboard callback is due
\* with the values the dropdowns now hold.
DropdownChanged(selected_dropdown_values) ==
    /\ call.op /= "pending"
    /\ \A i \in 1..Len(selected_dropdown_values) :
           Truthy(selected_dropdown_values[i]) =>
               /\ hist[selected_dropdown_values[i]].passes < MaxPasses
               /\ hist[selected_dropdown_values[i]].regaps < MaxPasses
    /\ call' = [NoCall EXCEPT !.op = "pending", !.selected = selected_dropdown_values]
    /\ UNCHANGED <<config, threads, site, markup, html_cache, metrics_cache, chat, hist>>

\* The pending update_dashboard callback runs on its dropdown values.
UpdateDashboard(selected_dropdown_values) ==
    /\ call.op = "pending"
    /\ call.selected = selected_dropdown_values
    /\ \E st \in {update_dashboard(metrics_cache, html_cache, hist,
                                    selected_dropdown_values)} :
           /\ html_cache' = st.html_cache
           /\ metrics_cache' = st.metrics_cache
           /\ hist' = st.hist
           /\ call' = dashboard_call(selected_dropdown_values, st)
    /\ UNCHANGED <<config, threads, site, markup, chat>>

\* A thread starts the update_dashboard callback with one ticker selected and
\* looks the ticker up in the cache of fetch_screener_html, which the cache
\* does under its lock.  On a hit the callback runs to its end; on a miss
\* the thread goes on to the body of fetch_screener_html, the lock released.
DashboardStarts(th, symbol) ==
    /\ threads[th].pc = "idle"
    /\ call.op /= "pending"
    /\ hist[symbol].passes < MaxPasses
    /\ hist[symbol].regaps < MaxPasses
    /\ IF symbol \in cache_keys(html_cache)
       THEN /\ \E st \in {update_dashboard(metrics_cache, html_cache, hist, <<symbol>>)} :
                   /\ html_cache' = st.html_cache
                   /\ metrics_cache' = st.metrics_cache
                   /\ hist' = st.hist
                   /\ call' = [dashboard_call(<<symbol>>, st) EXCEPT !.thread = th]
            /\ UNCHANGED threads
       ELSE /\ threads' = [threads EXCEPT ![th] = [Idle EXCEPT !.pc = "fetching",
                                                              !.symbol = symbol]]
            /\ UNCHANGED <<html_cache, metrics_cache, hist, call>>
    /\ UNCHANGED <<config, site, markup, chat>>

\* The thread runs the body of fetch_screener_html: the requests are made.
BodyRuns(th) ==
    /\ threads[th].pc = "fetching"
    /\ \E r \in {fetch_screener_html_uncached(threads[th].symbol)} :
           threads' = [threads EXCEPT ![th] = [@ EXCEPT !.pc = "fetched",
                                                       !.result = r.result,
                                                       !.log = r.log]]
    /\ UNCHANGED <<config, site, markup, html_cache, metrics_cache, chat, hist, call>>

\* What the cache holds once a thread has stored the result of the body: the
\* result is dropped when another thread has stored the key meanwhile.
cache_store(cache, key, val) ==
    IF key \in cache_keys(cache) THEN cache ELSE cache_put(cache, key, val)

\* The body has returned: the cache stores the result under its lock, and the
\* thread runs the rest of the callback.
DashboardEnds(th) ==
    /\ threads[th].pc = "fetched"
    /\ LET symbol == threads[th].symbol
           r == [result |-> threads[th].result, log |-> threads[th].log, hit |-> FALSE,
                 cache |-> cache_store(html_cache, symbol, threads[th].result)]
       IN  \E st \in {after_fetch([html_cache |-> html_cache,
                                     metrics_cache |-> metrics_cache, hist |-> hist,
                                     metrics_data |-> <<>>, invalid |-> <<>>,
                                     sections |-> <<>>, documents |-> <<>>,
                                     ann_blocks |-> <<>>, raised |-> FALSE],
                                    symbol, r)} :
               /\ html_cache' = st.html_cache
               /\ metrics_cache' = st.metrics_cache
               /\ hist' = st.hist
               /\ call' = [dashboard_call(<<symbol>>, st) EXCEPT
                             !.thread = th, !.result = r.result, !.log = r.log]
    /\ threads' = [threads EXCEPT ![th] = Idle]
    /\ UNCHANGED <<config, site, markup, chat>>

\* The pending call of fetch_screener_metrics(symbol) is made.
FetchMetrics(symbol) ==
    /\ call.op = "pending"
    /\ call.symbol = symbol
    /\ \E m \in {fetch_screener_metrics(metrics_cache, html_cache, hist, symbol)} :
           /\ html_cache' = m.html_cache
           /\ metrics_cache' = m.metrics_cache
           /\ hist' = m.hist
           /\ call' = [NoCall EXCEPT
                         !.op = "fetch_screener_metrics",
                         !.symbol = symbol,
                         !.raised = m.raised,
                         !.hit = m.hit,
                         !.metrics = m.value,
                         !.secondary = m.secondary,
                         !.log = m.log,
                         !.html_text = m.html_text]
    /\ UNCHANGED <<config, threads, site, markup, chat>>

\* The pending call of one of the table locators on html_text is made.
TableParsed(which, html_text, table) ==
    /\ call.op = "pending"
    /\ call.which = which
    /\ call.html_text = html_text
    /\ call' = [NoCall EXCEPT !.op = "parse_table", !.which = which,
                              !.html_text = html_text, !.table = table]
    /\ UNCHANGED <<config, threads, site, markup, html_cache, metrics_cache, chat, hist>>

ParsePlTable(html_text) == TableParsed("pl", html_text, parse_pl_table(html_text))

ParseBsTable(html_text) == TableParsed("bs", html_text, parse_bs_table(html_text))

ParseCfTable(html_text) == TableParsed("cf", html_text, parse_cf_table(html_text))

ParseShareholdingTable(html_text) ==
    TableParsed("sh", html_text, parse_shareholding_table(html_text))

\* The pending call of parse_announcements(html_text, max_items) is made; it
\* raises when the parser gives the markup up.
ParseAnnouncements(html_text, max_items) ==
    /\ call.op = "pending"
    /\ call.html_text = html_text
    /\ call.max_items = max_items
    /\ call' = [NoCall EXCEPT
                  !.op = "parse_announcements",
                  !.html_text = html_text,
                  !.max_items = max_items,
                  !.raised = parse_announcements_raises(html_text),
                  !.items = IF parse_announcements_raises(html_text) THEN <<>>
                            ELSE parse_announcements(html_text, max_items)]
    /\ UNCHANGED <<config, threads, site, markup, html_cache, metrics_cache, chat, hist>>

\* The chat callback fires in one browser session with the text typed, the
\* store of that session's page and the stocks selected; llm is what the
\* language model does with the request.  An empty or blank text raises
\* PreventUpdate and nothing changes.
HandleChatMessage(session, user_message, selected_stocks, llm) ==
    /\ call.op /= "pending"
    /\ (IF chat_history[session] = None THEN 0 ELSE Len(chat_history[session]))
           < 2 * MaxExchanges
    /\ IF ~Truthy(user_message) \/ strip(user_message) = <<>>
       THEN /\ call' = [NoCall EXCEPT !.op = "prevent_update",
                                      !.session = session,
                                      !.user_message = user_message]
            /\ UNCHANGED <<html_cache, metrics_cache, chat, hist>>
       ELSE \E r \in {handle_chat_message(metrics_cache, html_cache, hist,
                                          conversation_history, chat_history[session],
                                          user_message, selected_stocks, llm)} :
                /\ html_cache' = r.html_cache
                /\ metrics_cache' = r.metrics_cache
                /\ hist' = r.hist
                /\ conversation_history' = r.history
                /\ chat_history' = [chat_history EXCEPT ![session] = r.chat_history]
                /\ call' = [NoCall EXCEPT
                              !.op = "handle_chat_message",
                              !.session = session,
                              !.user_message = user_message,
                              !.selected = selected_stocks,
                              !.llm = llm,
                              !.messages = r.messages,
                              !.ai_response = r.ai_response,
                              !.history_before = conversation_history,
                              !.store_before = chat_history[session]]
    /\ UNCHANGED <<config, threads, site, markup>>

\* The pending call of fetch_google_finance_metrics(symbol) is made.
FetchGoogleFinance(symbol) ==
    /\ call.op = "pending"
    /\ call.which = "gf"
    /\ call.symbol = symbol
    /\ \E r \in {fetch_google_finance_metrics(symbol)} :
           call' = [NoCall EXCEPT !.op = "fetch_google_finance_metrics",
                                  !.symbol = symbol, !.raised = r.raised,
                                  !.fetcher = r]
    /\ UNCHANGED <<config, threads, site, markup, html_cache, metrics_cache, chat, hist>>

\* The pending call of fetch_bse_metrics(bse_code) is made.
FetchBse(bse_code) ==
    /\ call.op = "pending"
    /\ call.which = "bse"
    /\ call.symbol = bse_code
    /\ \E r \in {fetch_bse_metrics(bse_code)} :
           call' = [NoCall EXCEPT !.op = "fetch_bse_metrics",
                                  !.symbol = bse_code, !.raised = r.raised,
                                  !.fetcher = r]
    /\ UNCHANGED <<config, threads, site, markup, html_cache, metrics_cache, chat, hist>>

----------------------------------------------------------------------------
(* Specifications                                                          *)

\* No body of the site is known to have anything in it.
NoMarkup == [text \in {} |-> EmptyDocument]

InitProcess ==
    /\ html_cache = <<>>
    /\ metrics_cache = <<>>
    /\ conversation_history = <<>>
    /\ chat_history = [session \in Sessions |-> None]
    /\ call = NoCall
    /\ hist = [t \in HistTickers |-> NoHist]
    /\ threads = [th \in Threads |-> Idle]

\* The resolver on every input, under every override table and master list.
InitResolve ==
    /\ SCREENER_SPECIAL \in SpecialTables
    /\ master_df \in MasterLists
    /\ TICKER_TO_SCREENER_CODES = csv_mapping(master_df)
    /\ site = site_of([c \in {} |-> <<>>])
    /\ markup = NoMarkup
    /\ html_cache = <<>>
    /\ metrics_cache = <<>>
    /\ conversation_history = <<>>
    /\ chat_history = [session \in Sessions |-> None]
    /\ hist = [t \in HistTickers |-> NoHist]
    /\ threads = [th \in Threads |-> Idle]
    /\ \E symbol \in ResolveInputs :
           call = [NoCall EXCEPT !.op = "pending", !.symbol = symbol]

NextResolve == \E symbol \in ResolveInputs : Resolve(symbol)

SpecResolve == InitResolve /\ [][NextResolve]_vars

\* fetch_screener_html against every behaviour of the site for two codes, for
\* a ticker with candidates and for one whose only candidate is unusable.
FetchTickers == {A_NS, DOT_NS}

InitFetch ==
    /\ SCREENER_SPECIAL \in SpecialTables
    /\ master_df \in MasterLists
    /\ TICKER_TO_SCREENER_CODES = csv_mapping(master_df)
    /\ \E beh \in [{<<"A">>, <<"5">>} -> Behaviours] : site = site_of(beh)
    /\ markup = NoMarkup
    /\ InitProcess

NextFetch == \E symbol \in FetchTickers : FetchHtml(symbol)

SpecFetch == InitFetch /\ [][NextFetch]_vars

\* The cache across many calls while the site changes.
CacheTickers == {A_NS, N5_BO, B_BO}

CacheBehaviours == {<<"ok", "404">>, <<"500", "404">>}

InitCache ==
    /\ SCREENER_SPECIAL = EmptyMap
    /\ master_df = [columns |-> {"Ticker", "CompanyName"}, rows |-> <<>>]
    /\ TICKER_TO_SCREENER_CODES = csv_mapping(master_df)
    /\ \E beh \in [SiteCodes -> CacheBehaviours] : site = site_of(beh)
    /\ markup = NoMarkup
    /\ InitProcess

NextCache ==
    \/ \E symbol \in CacheTickers : FetchHtml(symbol)
    \/ \E code \in SiteCodes, beh \in CacheBehaviours : SiteChange(code, beh)

SpecCache == InitCache /\ [][NextCache]_vars

----------------------------------------------------------------------------
(* fetch_screener_metrics on one document (SpecMetrics, SpecYoY)           *)

\* The master list of these specifications: one company, by its NSE symbol.
MetricsMaster ==
    [columns |-> AllColumns, rows |-> << Row(A_NS, <<"A">>, NaN, NaN) >>]

\* The document: the body of the consolidated page of code A.
PAGE == DocText(<<"A">>, CONS)

QUOTE == <<"q", "u", "o", "t", "e">>

\* The <li>s of a key metrics list: one per value that is there (None: not
\* there), under the label given, after an item with a single span.
key_items(pairs) ==
    << <<"About">> >> \o
    SelectSeq([i \in 1..Len(pairs) |-> <<pairs[i][1], pairs[i][2]>>],
              LAMBDA item : item[2] /= None)

MarketCaps == {None, <<"9", " ", "C", "r">>}

Prices == {None, <<"1", "0", "0", "0">>, <<RUPEE, " ", "1", ",", "0", "0", "0">>, <<"x">>}

BookValues == {None, <<"2", "0", "0">>, <<"0">>, <<RUPEE, " ", "3">>, <<"-", "4">>}

PriceBooks == {None, <<"4", ".", "2">>}

HighLows == {None, <<RUPEE, "7", "0", " ", "/", " ", "3", "0">>, <<"7", "0">>}

PriceEarnings == {None, <<"2", "0">>}

KeyLists ==
    {key_items(<< <<"Market Cap", mcap>>, <<"Current Price", price>>,
                  <<"High / Low", hl>>, <<"Stock P/E", pe>>,
                  <<"Book Value", bv>>, <<"Price to book", pb>> >>) :
         mcap \in MarketCaps, price \in Prices, hl \in HighLows,
         pe \in PriceEarnings, bv \in BookValues, pb \in PriceBooks}

\* What the quote page has: everything; the 52-week high alone; or a price
\* and a market-cap lookup that raises.
QuoteDocuments ==
    { [EmptyDocument EXCEPT
          !.price_div = <<RUPEE, "8", "8">>,
          !.labels = << <<"Market cap", <<"5", "T">> >>,
                        <<"P/E ratio", <<"3", "1">> >>,
                        <<"52-wk high", <<RUPEE, "9", "9">> >>,
                        <<"52-wk low", <<"1", "1">> >> >>],
      [EmptyDocument EXCEPT
          !.labels = << <<"52-wk high", <<"9", "9">> >> >>],
      [EmptyDocument EXCEPT
          !.price_div = <<"8", "8">>,
          !.labels = << <<"Market cap", RAISES>> >>] }

\* How the two quote URLs answer: <<NSE, BOM>>.
QuoteBehaviours ==
    {<<"ok", "404">>, <<"404", "ok">>, <<"404", "404">>, <<"error", "404">>,
     <<"500", "timeout">>, <<"bad", "404">>}

\* The site: the consolidated page of code A is the document; the quote
\* URLs of ticker A.NS answer as told; the exchange URLs of code 5 likewise.
site_with(urls, kinds, text) ==
    [u \in {urls[i] : i \in 1..Len(urls)} |->
        LET i == CHOOSE i \in 1..Len(urls) : urls[i] = u
        IN  IF kinds[i] \in {"ok", "bad"}
            THEN HttpResponse(200, IF kinds[i] = "bad" THEN text \o REJECTED_MARKUP
                                   ELSE text, u)
            ELSE response_of(kinds[i], u, <<>>, <<>>)]

merge(f, g) ==
    [x \in DOMAIN f \cup DOMAIN g |-> IF x \in DOMAIN f THEN f[x] ELSE g[x]]

quote_urls(symbol) ==
    <<gf_url(symbol, <<"N", "S", "E">>), gf_url(symbol, <<"B", "O", "M">>)>>

InitMetricsWith(documents, quotes, behaviours) ==
    /\ SCREENER_SPECIAL = EmptyMap
    /\ master_df = MetricsMaster
    /\ TICKER_TO_SCREENER_CODES = csv_mapping(master_df)
    /\ \E beh \in behaviours :
           site = merge(site_with(quote_urls(A_NS), beh, QUOTE),
                        site_of([c \in {<<"A">>} |-> <<"ok", "404">>]))
    /\ \E doc \in documents, quote \in quotes :
           markup = [text \in {PAGE, QUOTE} |-> IF text = PAGE THEN doc ELSE quote]
    /\ html_cache = <<>>
    /\ metrics_cache = <<>>
    /\ conversation_history = <<>>
    /\ chat_history = [session \in Sessions |-> None]
    /\ hist = [t \in HistTickers |-> NoHist]
    /\ threads = [th \in Threads |-> Idle]
    /\ call = [NoCall EXCEPT !.op = "pending", !.symbol = A_NS]

\* Every key metrics list against every quote page and quote behaviour.
InitMetrics ==
    InitMetricsWith({[EmptyDocument EXCEPT !.li = items] : items \in KeyLists},
                    QuoteDocuments, QuoteBehaviours)

NextMetrics == \E symbol \in {A_NS} : FetchMetrics(symbol)

SpecMetrics == InitMetrics /\ [][NextMetrics]_vars

\* A table whose first column matches nothing the program looks for.
OtherTable ==
    [columns |-> << <<"k">>, <<"v">> >>,
     rows    |-> << << <<"P", "e", "e", "r", "s">>, <<"1">> >> >>]

PeriodNames == << <<"y", "1">>, <<"y", "2">>, <<"y", "3">>, <<"T", "T", "M">> >>

\* A profit-and-loss table with n period columns whose rows are one labelled
\* name, with prev and last in the third-from-last and second-from-last
\* period columns (in the first two when n is 2), and "Net Profit" with 50 and
\* 40 in them.
pl_table(name, prev, last, n) ==
    LET cells(a, b) == IF n = 2 THEN <<a, b>>
                       ELSE IF n = 3 THEN <<a, b, <<"7">> >>
                       ELSE << <<"7">>, a, b, <<"7">> >>
    IN  [columns |-> << <<"x">> >> \o SubSeq(PeriodNames, 1, n),
         rows    |-> << <<name>> \o cells(prev, last),
                        <<NET_PROFIT>> \o cells(<<"5", "0">>, <<"4", "0">>) >>]

SalesNames == {SALES, SALES \o <<" ", "+">>}

PrevCells == {<<"1", "0", "0">>, <<"0">>, <<"0", ".", "0">>, <<"a", "b", "c">>, NaN,
              <<"1", ",", "0", "0", "0">>}

LastCells == {<<"1", "2", "0">>, <<"9", "0">>, <<"a", "b", "c">>, NaN}

PeriodCounts == {2, 3, 4}

\* The tables of a document: none; one that is no profit-and-loss table; or
\* a profit-and-loss table, alone or after such a one.
TableLists ==
    {<<>>, <<OtherTable>>} \cup
    {before \o <<pl_table(name, prev, last, n)>> :
         before \in {<<>>, <<OtherTable>>}, name \in SalesNames,
         prev \in PrevCells, last \in LastCells, n \in PeriodCounts}

\* A key metrics list with the two values whose absence calls the fallback.
FullKeyList ==
    key_items(<< <<"Market Cap", <<"9">> >>, <<"Current Price", <<"8">> >> >>)

\* Every list of tables on a document that has its key metrics.
InitYoY ==
    InitMetricsWith({[EmptyDocument EXCEPT !.li = FullKeyList, !.tables = tables] :
                         tables \in TableLists},
                    {EmptyDocument}, {<<"404", "404">>})

SpecYoY == InitYoY /\ [][NextMetrics]_vars

----------------------------------------------------------------------------
(* The table locators on one document (SpecLocate)                         *)

MaxTables == 2

\* A table of two columns whose first column holds the labels and whose
\* second column tells it from every other table.
labelled(labels, mark) ==
    [columns |-> << <<"x">>, <<"y">> >>,
     rows    |-> [i \in 1..Len(labels) |-> <<labels[i], mark>>]]

CandidateTables ==
    { labelled(<< <<"T", "o", "t", "a", "l", " ">> \o SALES,
                  NET_PROFIT \o <<" ", "A", "f", "t", "e", "r", " ", "T", "a", "x">> >>,
               <<"1">>),
      labelled(<< lower(NET_PROFIT), NaN, <<"S", "A", "L", "E", "S">> >>, <<"2">>),
      labelled(<< SALES, NaN >>, <<"3">>),
      labelled(<< EQUITY_CAPITAL, TOTAL_ASSETS >>, <<"4">>),
      labelled(<< <<"T", "O", "T", "A", "L", " ", "A", "S", "S", "E", "T", "S">>,
                  lower(EQUITY_CAPITAL) >>, <<"5">>),
      labelled(<< CASH_FROM_OPERATING \o <<" ", "+">>, NET_CASH_FLOW >>, <<"6">>),
      labelled(<< lower(NET_CASH_FLOW) \o lower(CASH_FROM_OPERATING) >>, <<"7">>),
      labelled(<< PROMOTERS \o <<" ", "+">> >>, <<"8">>),
      labelled(<< <<"p", "r", "o", "m", "o", "t", "e", "r">> >>, <<"9">>),
      OtherTable }

Locators == {"pl", "bs", "cf", "sh"}

\* The document as fetched, and markup the parser gives up.
Bodies == {PAGE, PAGE \o REJECTED_MARKUP}

InitParse(documents) ==
    /\ SCREENER_SPECIAL = EmptyMap
    /\ master_df = MetricsMaster
    /\ TICKER_TO_SCREENER_CODES = csv_mapping(master_df)
    /\ site = site_of([c \in {<<"A">>} |-> <<"ok", "404">>])
    /\ \E doc \in documents : markup = [text \in {PAGE} |-> doc]
    /\ html_cache = <<>>
    /\ metrics_cache = <<>>
    /\ conversation_history = <<>>
    /\ chat_history = [session \in Sessions |-> None]
    /\ hist = [t \in HistTickers |-> NoHist]
    /\ threads = [th \in Threads |-> Idle]

InitLocate ==
    /\ InitParse({[EmptyDocument EXCEPT !.tables = tables] :
                      tables \in UNION {[1..n -> CandidateTables] : n \in 0..MaxTables}})
    /\ \E which \in Locators, html_text \in Bodies :
           call = [NoCall EXCEPT !.op = "pending", !.which = which,
                                 !.html_text = html_text]

NextLocate ==
    \E html_text \in Bodies :
        \/ ParsePlTable(html_text)
        \/ ParseBsTable(html_text)
        \/ ParseCfTable(html_text)
        \/ ParseShareholdingTable(html_text)

SpecLocate == InitLocate /\ [][NextLocate]_vars

----------------------------------------------------------------------------
(* parse_announcements on one document (SpecAnnouncements)                 *)

MaxLi == 4

MaxItemsAsked == 3

\* The k-th <li> of a section: with a link whose text has a heading and a
\* trailing part, or without a link.
li_at(k, linked) ==
    [linked |-> linked,
     a      |-> [text |-> <<"T">> \o int_str(k) \o <<" ", "-", " ", "d">>,
                 href |-> <<"/", "a", "/">> \o int_str(k)],
     text   |-> IF linked THEN <<"T">> \o int_str(k) \o <<" ", "-", " ", "d", " ", "x">>
                ELSE <<"n", "o", "t", "e">>]

ItemLists ==
    {[k \in 1..Len(flags) |-> li_at(k, flags[k])] :
         flags \in UNION {[1..n -> BOOLEAN] : n \in 0..MaxLi}}

\* The headings of the page: none; one of another section; the announcements
\* heading; or both.  The other section has one <li> with a link.
heading_lists(items) ==
    LET other == [text |-> <<"P", "e", "e", "r", "s">>, li |-> <<li_at(9, TRUE)>>]
        ann   == [text |-> <<" ", "R", "e", "c", "e", "n", "t", " ", "A", "n", "n", "o",
                             "u", "n", "c", "e", "m", "e", "n", "t", "s">>,
                  li   |-> items]
    IN  {<<>>, <<other>>, <<ann>>, <<other, ann>>}

\* The <ul>s of the page: none; one without a class; or one of class
\* "list Announcement-list" after it.
ul_lists(items) ==
    LET plain == [class |-> <<>>, li |-> <<li_at(9, TRUE)>>]
        ann   == [class |-> << <<"l", "i", "s", "t">>,
                               <<"A", "n", "n", "o", "u", "n", "c", "e", "m", "e", "n",
                                 "t", "-", "l", "i", "s", "t">> >>,
                  li    |-> items]
    IN  {<<>>, <<plain>>, <<plain, ann>>}

AnnouncementDocuments ==
    UNION {{[EmptyDocument EXCEPT !.headings = hs, !.uls = us] :
                hs \in heading_lists(items), us \in ul_lists(Reverse(items))} :
           items \in ItemLists}

InitAnnouncements ==
    /\ InitParse(AnnouncementDocuments)
    /\ \E html_text \in Bodies, max_items \in 1..MaxItemsAsked :
           call = [NoCall EXCEPT !.op = "pending", !.html_text = html_text,
                                 !.max_items = max_items]

NextAnnouncements ==
    \E html_text \in Bodies, max_items \in 1..MaxItemsAsked :
        ParseAnnouncements(html_text, max_items)

SpecAnnouncements == InitAnnouncements /\ [][NextAnnouncements]_vars

----------------------------------------------------------------------------
(* The chat of one browser session (SpecChat)                              *)

UserMessages == {<<"h", "i">>, <<"y", "o">>, <<>>, <<" ", " ">>, None}

\* The language model replies, or the request fails with an error text.
LlmOutcomes ==
    {[kind |-> "reply", content |-> <<"o", "k">>],
     [kind |-> "error", content |-> <<"4", "2", "9">>]}

\* The stocks selected while chatting: an emptied slot and one ticker.
ChatSelections == {<<None, A_NS>>}

InitChat ==
    /\ SCREENER_SPECIAL = EmptyMap
    /\ master_df = MetricsMaster
    /\ TICKER_TO_SCREENER_CODES = csv_mapping(master_df)
    /\ site = merge(site_with(quote_urls(A_NS), <<"404", "404">>, QUOTE),
                    site_of([c \in {<<"A">>} |-> <<"ok", "404">>]))
    /\ markup = [text \in {PAGE} |-> [EmptyDocument EXCEPT !.li = FullKeyList]]
    /\ html_cache = <<>>
    /\ metrics_cache = <<>>
    /\ conversation_history = <<>>
    /\ \E store \in {None, <<>>} : chat_history = [session \in Sessions |-> store]
    /\ hist = [t \in HistTickers |-> NoHist]
    /\ threads = [th \in Threads |-> Idle]
    /\ call = NoCall

NextChat ==
    \E user_message \in UserMessages, selected_stocks \in ChatSelections,
       llm \in LlmOutcomes :
        HandleChatMessage(1, user_message, selected_stocks, llm)

SpecChat == InitChat /\ [][NextChat]_vars

----------------------------------------------------------------------------
(* The two secondary fetchers, each called once (SpecSecondary)            *)

BSE_JSON == <<"j", "s", "o", "n">>

BSE_HTML == <<"h", "t", "m", "l">>

\* What the exchange's API body decodes to.
ApiBodies ==
    {NoJson, JsonObject, JsonList(<<>>),
     JsonList(<< << <<"CurrRate", <<"1", "2">> >>, <<"High", <<"1", "5">> >>,
                    <<"Low", <<"9">> >> >> >>),
     JsonList(<< << <<"Vol", <<"7">> >> >> >>)}

\* The text of the price element of the exchange's page, None without one.
PagePrices == {None, <<"1", ",", "2", "3", "4">>}

ApiBehaviours == {"ok", "404", "500", "timeout", "error"}

PageBehaviours == {"ok", "bad", "404", "error"}

N5 == <<"5">>

InitSecondary ==
    /\ SCREENER_SPECIAL = EmptyMap
    /\ master_df = MetricsMaster
    /\ TICKER_TO_SCREENER_CODES = csv_mapping(master_df)
    /\ \E quotes \in QuoteBehaviours, api \in ApiBehaviours, page \in PageBehaviours :
           site = merge(site_with(quote_urls(A_NS), quotes, QUOTE),
                        merge(site_with(<<BSE_API \o N5>>, <<api>>, BSE_JSON),
                              site_with(<<BSE_PAGE \o N5>>, <<page>>, BSE_HTML)))
    /\ \E quote \in QuoteDocuments, body \in ApiBodies, price \in PagePrices :
           markup = [text \in {QUOTE, BSE_JSON, BSE_HTML} |->
                        CASE text = QUOTE    -> quote
                          [] text = BSE_JSON -> [EmptyDocument EXCEPT !.json = body]
                          [] text = BSE_HTML -> [EmptyDocument EXCEPT !.idcrval = price]]
    /\ html_cache = <<>>
    /\ metrics_cache = <<>>
    /\ conversation_history = <<>>
    /\ chat_history = [session \in Sessions |-> None]
    /\ hist = [t \in HistTickers |-> NoHist]
    /\ threads = [th \in Threads |-> Idle]
    /\ \/ call = [NoCall EXCEPT !.op = "pending", !.which = "gf", !.symbol = A_NS]
       \/ call = [NoCall EXCEPT !.op = "pending", !.which = "bse", !.symbol = N5]

NextSecondary ==
    \/ \E symbol \in {A_NS} : FetchGoogleFinance(symbol)
    \/ \E bse_code \in {N5} : FetchBse(bse_code)

SpecSecondary == InitSecondary /\ [][NextSecondary]_vars

----------------------------------------------------------------------------
(* fetch_screener_metrics with and without a document (SpecFallback)       *)

\* One company with its NSE symbol alone, or with its exchange code as well.
FallbackMasters ==
    {MetricsMaster,
     [columns |-> AllColumns, rows |-> << Row(A_NS, <<"A">>, <<"5", ".", "0">>, NaN) >>]}

\* The ticker of the company, and tickers without a usable identifier.
FallbackTickers == {A_NS, DOT_NS, EMPTY, None}

\* What the consolidated page of code A answers.
FallbackPages == {<<"ok", "404">>, <<"404", "404">>, <<"timeout", "404">>, <<"empty", "404">>}

\* The key metrics lists: the market cap there, empty or missing, the price
\* and the P/E there or missing.
FallbackKeyLists ==
    {key_items(<< <<"Market Cap", mcap>>, <<"Current Price", price>>,
                  <<"Stock P/E", pe>> >>) :
         mcap \in {None, <<>>, <<"9", " ", "C", "r">>},
         price \in {None, <<"1", "0", "0", "0">>},
         pe \in PriceEarnings}

FallbackQuotes == {<<"ok", "404">>, <<"404", "404">>}

FallbackApiBodies ==
    {JsonList(<<>>),
     JsonList(<< << <<"CurrRate", <<"1", "2">> >>, <<"High", <<"1", "5">> >>,
                    <<"Low", <<"9">> >> >> >>)}

InitFallback ==
    /\ SCREENER_SPECIAL = EmptyMap
    /\ master_df \in FallbackMasters
    /\ TICKER_TO_SCREENER_CODES = csv_mapping(master_df)
    /\ \E page \in FallbackPages, quotes \in FallbackQuotes,
          api \in {"ok", "404"}, exchange \in {"ok", "404"} :
           site = merge(site_with(quote_urls(A_NS), quotes, QUOTE),
                  merge(site_with(<<BSE_API \o N5>>, <<api>>, BSE_JSON),
                  merge(site_with(<<BSE_PAGE \o N5>>, <<exchange>>, BSE_HTML),
                        site_of([c \in {<<"A">>} |-> page]))))
    /\ \E items \in FallbackKeyLists, body \in FallbackApiBodies :
           markup = [text \in {PAGE, QUOTE, BSE_JSON, BSE_HTML} |->
                        CASE text = PAGE     -> [EmptyDocument EXCEPT !.li = items]
                          [] text = QUOTE    ->
                                 [EmptyDocument EXCEPT
                                    !.price_div = <<RUPEE, "8", "8">>,
                                    !.labels = << <<"52-wk high", <<"9", "9">> >> >>]
                          [] text = BSE_JSON -> [EmptyDocument EXCEPT !.json = body]
                          [] text = BSE_HTML ->
                                 [EmptyDocument EXCEPT !.idcrval = <<"1", ",", "2">>]]
    /\ html_cache = <<>>
    /\ metrics_cache = <<>>
    /\ conversation_history = <<>>
    /\ chat_history = [session \in Sessions |-> None]
    /\ hist = [t \in HistTickers |-> NoHist]
    /\ threads = [th \in Threads |-> Idle]
    /\ \E symbol \in FallbackTickers :
           call = [NoCall EXCEPT !.op = "pending", !.symbol = symbol]

NextFallback == \E symbol \in FallbackTickers : FetchMetrics(symbol)

SpecFallback == InitFallback /\ [][NextFallback]_vars

----------------------------------------------------------------------------
(* Claims about the cache of fetch_screener_html (SpecCache)               *)

Fetched == call.op = "fetch_screener_html"

\* C1: a call of fetch_screener_html(t) made after an earlier call of
\* fetch_screener_html(t), with at most maxsize - 1 other distinct tickers
\* fetched in between, issues no request and returns what the earlier call
\* returned, a memoized None included, whatever the site would answer now.
C1_SecondCallMemoized ==
    (Fetched /\ call.gap \in 0..(maxsize - 1)) =>
        (call.log = <<>> /\ call.result = call.memo)

\* A repeated call within the window returns the memoized failure although the
\* site would now deliver a document.
C1_Witness ==
    /\ Fetched
    /\ call.gap = maxsize - 1
    /\ call.memo = None
    /\ call.result = None
    /\ call.log = <<>>
    /\ fetch_screener_html_uncached(call.symbol).result /= None

\* C2 as stated: no ticker is ever fetched from the site more than once.
C2_FetchedAtMostOnce == \A t \in HistTickers : hist[t].passes <= 1

\* C2 as amended: a ticker is fetched from the site at most once, plus once for
\* every call of it made after maxsize or more other distinct tickers were
\* fetched since its previous call (its entry has then been evicted).
C2_FetchedOncePerEviction ==
    \A t \in HistTickers : hist[t].passes <= 1 + hist[t].regaps

\* A ticker fetched a second time, after the others pushed it out of the cache.
C2_Witness ==
    \E t \in HistTickers : hist[t].passes = 2 /\ hist[t].regaps = 1

----------------------------------------------------------------------------
(* Claims about one pass of fetch_screener_html (SpecFetch)                *)

\* The attempt for one candidate succeeds: its consolidated page is accepted,
\* or that page is a 404 and its standalone page is accepted.
AttemptSucceeds(code) ==
    LET c == requests_get(consolidated_url(code))
        f == requests_get(screener_base(code))
    IN  /\ c.kind = "http"
        /\ \/ c.status = 200 /\ consolidated_accepts(c)
           \/ c.status = 404 /\ f.kind = "http" /\ standalone_accepts(f)

AttemptBody(code) ==
    LET c == requests_get(consolidated_url(code))
    IN  IF c.status = 200 THEN c.text ELSE requests_get(screener_base(code)).text

Winners(codes) ==
    {i \in 1..Len(codes) : Truthy(codes[i]) /\ AttemptSucceeds(codes[i])}

FirstWinner(codes) ==
    CHOOSE i \in Winners(codes) : \A j \in Winners(codes) : i <= j

IsConsolidated(entry) ==
    endswith(entry.url, <<"c", "o", "n", "s", "o", "l", "i", "d", "a", "t", "e", "d", "/">>)

\* C3: a pass over the candidates requests the consolidated pages in list
\* order up to and including the earliest candidate whose attempt succeeds and
\* returns that candidate's body; nothing is requested for a later candidate;
\* the result is None exactly when no candidate's attempt succeeds.
C3_FirstSuccessInOrder ==
    (Fetched /\ ~call.hit) =>
        LET codes == call.codes
            won   == Winners(codes) /= {}
            k     == IF won THEN FirstWinner(codes) ELSE Len(codes)
            tried == SelectSeq(SubSeq(codes, 1, k), Truthy)
            asked == SelectSeq(call.log, IsConsolidated)
        IN  /\ Len(asked) = Len(tried)
            /\ \A i \in 1..Len(tried) : asked[i].url = consolidated_url(tried[i])
            /\ \A i \in 1..Len(call.log) :
                   \E j \in 1..Len(tried) :
                       call.log[i].url \in {consolidated_url(tried[j]),
                                            screener_base(tried[j])}
            /\ won => call.result = AttemptBody(codes[k])
            /\ (call.result = None) <=> ~won

\* The first candidate failed, the second succeeded, and a third was left
\* untried.
C3_Witness ==
    /\ Fetched /\ ~call.hit
    /\ Len(call.codes) = 3
    /\ Winners(call.codes) /= {}
    /\ FirstWinner(call.codes) = 2
    /\ call.result = AttemptBody(call.codes[2])
    /\ Len(SelectSeq(call.log, IsConsolidated)) = 2

\* text contains phrase, compared without regard to case.
HasPhrase(text, phrase) ==
    \E i \in 1..(Len(text) - Len(phrase) + 1) :
        \A j \in 1..Len(phrase) : lower_char(text[i + j - 1]) = phrase[j]

\* C4: every document fetch_screener_html has returned is the body of a
\* status-200 response and contains neither "page not found" nor "does not
\* exist" in any letter case.
C4_ReturnedDocumentIsClean ==
    \A t \in HistTickers :
        (hist[t].called /\ hist[t].ret /= None) =>
            /\ hist[t].origin.kind = "http"
            /\ hist[t].origin.status = 200
            /\ hist[t].origin.text = hist[t].ret
            /\ ~HasPhrase(hist[t].ret, PAGE_NOT_FOUND)
            /\ ~HasPhrase(hist[t].ret, DOES_NOT_EXIST)

\* A document that came from the standalone URL, and a candidate whose
\* standalone page was turned down for its body.
C4_Witness ==
    /\ Fetched
    /\ call.result /= None
    /\ ~IsConsolidated(call.log[Len(call.log)])
    /\ \E i \in 1..Len(call.log) :
           /\ ~IsConsolidated(call.log[i])
           /\ call.log[i].resp.status = 200
           /\ HasPhrase(call.log[i].resp.text, DOES_NOT_EXIST)

----------------------------------------------------------------------------
(* Claims about get_screener_codes_for_ticker (SpecResolve)                *)

Resolved == call.op = "resolve"

Overridden(symbol) == symbol \in DOMAIN SCREENER_SPECIAL

Mapped(symbol) == symbol \in DOMAIN TICKER_TO_SCREENER_CODES

\* C5: for a ticker in SCREENER_SPECIAL the result is the override's list, a
\* single string promoted to a one-element list, whatever the CSV-derived
\* mapping and the ticker's suffix say.
C5_OverrideWins ==
    (Resolved /\ Overridden(call.symbol)) =>
        LET special_codes == SCREENER_SPECIAL[call.symbol]
        IN  IF special_codes.islist
            THEN call.codes = special_codes.val
            ELSE call.codes = <<special_codes.val>>

\* An override given as a single string, for a ticker the CSV maps otherwise.
C5_Witness ==
    /\ Resolved
    /\ Overridden(call.symbol)
    /\ Mapped(call.symbol)
    /\ ~SCREENER_SPECIAL[call.symbol].islist
    /\ call.codes = <<SCREENER_SPECIAL[call.symbol].val>>
    /\ call.codes /= TICKER_TO_SCREENER_CODES[call.symbol]

EndsNS(symbol) == Truthy(symbol) /\ endswith(symbol, DotNS)

EndsBO(symbol) == Truthy(symbol) /\ endswith(symbol, DotBO)

\* C6 as stated: for every ticker ending with ".NS" the first candidate is the
\* ticker without the suffix, in every state of the two tables.
C6_StrippedFirstAlways ==
    (Resolved /\ EndsNS(call.symbol)) =>
        (call.codes /= <<>> /\ call.codes[1] = DropLast3(call.symbol))

\* C6 as amended: for every ticker ending with ".NS" that has neither an
\* override entry nor a CSV-derived mapping, the only candidate is the ticker
\* without the suffix.
C6_StrippedFirstUnmapped ==
    (Resolved /\ EndsNS(call.symbol)
              /\ ~Overridden(call.symbol) /\ ~Mapped(call.symbol)) =>
        call.codes = <<DropLast3(call.symbol)>>

\* An unmapped ".NS" ticker with a further "." in it, while the tables hold
\* entries for other tickers.
C6_Witness ==
    /\ Resolved
    /\ EndsNS(call.symbol)
    /\ ~Overridden(call.symbol) /\ ~Mapped(call.symbol)
    /\ Contains(DropLast3(call.symbol), <<".">>)
    /\ call.codes = <<DropLast3(call.symbol)>>
    /\ DOMAIN SCREENER_SPECIAL /= {}
    /\ DOMAIN TICKER_TO_SCREENER_CODES /= {}

HasDot(symbol) == Truthy(symbol) /\ Contains(symbol, <<".">>)

\* C7 as stated: an unmapped ticker resolves to the part before ".BO", else
\* to the part before its first ".", else to itself.
C7_ThreeCases ==
    (Resolved /\ ~Overridden(call.symbol) /\ ~Mapped(call.symbol)) =>
        call.codes = << IF EndsBO(call.symbol) THEN DropLast3(call.symbol)
                        ELSE IF HasDot(call.symbol) THEN SplitDotFirst(call.symbol)
                        ELSE call.symbol >>

\* C7 as amended: an unmapped ticker resolves to the part before ".NS" when it
\* ends with ".NS", else to the part before ".BO" when it ends with ".BO",
\* else to the part before its first ".", else to itself.
C7_FourCases ==
    (Resolved /\ ~Overridden(call.symbol) /\ ~Mapped(call.symbol)) =>
        call.codes = << IF EndsNS(call.symbol) THEN DropLast3(call.symbol)
                        ELSE IF EndsBO(call.symbol) THEN DropLast3(call.symbol)
                        ELSE IF HasDot(call.symbol) THEN SplitDotFirst(call.symbol)
                        ELSE call.symbol >>

\* A ".BO" ticker whose remainder is not a number and holds a ".".
C7_Witness ==
    /\ Resolved
    /\ ~Overridden(call.symbol) /\ ~Mapped(call.symbol)
    /\ EndsBO(call.symbol)
    /\ ~isdigit(DropLast3(call.symbol))
    /\ Contains(DropLast3(call.symbol), <<".">>)
    /\ call.codes = <<DropLast3(call.symbol)>>

\* C8: every non-empty ticker resolves to a non-empty list of usable
\* (non-empty, non-None) identifiers, and the result is [None] exactly when
\* the ticker is "" or None.
C8_NoneOnlyForEmpty ==
    Resolved =>
        /\ Truthy(call.symbol) =>
               /\ call.codes /= <<>>
               /\ \A i \in 1..Len(call.codes) : Truthy(call.codes[i])
        /\ (call.codes = <<None>>) <=> ~Truthy(call.symbol)

----------------------------------------------------------------------------
(* The dashboard (SpecDash)                                                *)

\* The master list behind the dropdowns: two companies with codes and one row
\* whose ticker yields no identifier.
DashMaster ==
    [columns |-> AllColumns,
     rows |-> << Row(A_NS, <<"A">>, NaN, NaN),
                 Row(N5_BO, NaN, <<"5">>, NaN),
                 Row(DOT_NS, NaN, NaN, NaN) >>]

\* What a dropdown can hold: nothing, or the ticker of a master-list row.
DropdownValues == {None} \cup {DashMaster.rows[i].Ticker : i \in 1..Len(DashMaster.rows)}

Selections == UNION {[1..n -> DropdownValues] : n \in 0..MaxSel}

DashBehaviours ==
    {<<"ok", "404">>, <<"bad", "404">>, <<"empty", "404">>, <<"404", "ok">>, <<"404", "pnf">>}

InitDash ==
    /\ SCREENER_SPECIAL = EmptyMap
    /\ master_df = DashMaster
    /\ TICKER_TO_SCREENER_CODES = csv_mapping(master_df)
    /\ \E beh \in [{<<"A">>, <<"5">>} -> DashBehaviours] : site = site_of(beh)
    /\ markup = NoMarkup
    /\ html_cache = <<>>
    /\ metrics_cache = <<>>
    /\ conversation_history = <<>>
    /\ chat_history = [session \in Sessions |-> None]
    /\ hist = [t \in HistTickers |-> NoHist]
    /\ threads = [th \in Threads |-> Idle]
    /\ \E selected \in Selections :
           call = [NoCall EXCEPT !.op = "pending", !.selected = selected]

NextDash == \E selected \in Selections : UpdateDashboard(selected)

SpecDash == InitDash /\ [][NextDash]_vars

Updated == call.op = "update_dashboard"

Selected == {call.selected[i] : i \in 1..Len(call.selected)} \ {None, <<>>}

Rows == {call.metrics_data[i].Symbol : i \in 1..Len(call.metrics_data)}

Unavailable == {call.invalid[i] : i \in 1..Len(call.invalid)}

\* The document fetch_screener_html holds or would fetch for the ticker.
DocumentOf(symbol) == fetch_screener_html(html_cache, symbol).result

\* C9: update_dashboard raises nothing and puts every distinct non-empty
\* selected ticker in exactly one output: one metrics row when a document was
\* fetched for it, one entry of the unavailable list when none was.
C9_RowOrUnavailable ==
    Updated =>
        /\ ~call.raised
        /\ Len(call.metrics_data) = Cardinality(Rows)
        /\ Len(call.invalid) = Cardinality(Unavailable)
        /\ Rows \cup Unavailable = Selected
        /\ Rows \cap Unavailable = {}
        /\ \A symbol \in Selected : symbol \in Rows <=> Truthy(DocumentOf(symbol))

\* C10: a step that raises for one ticker stops nothing for the others: every
\* selected ticker without a document is reported unavailable and every
\* selected ticker with a parsable document gets its metrics row.
C10_FailureStaysWithItsTicker ==
    Updated =>
        \A symbol \in Selected :
            /\ ~Truthy(DocumentOf(symbol)) => symbol \in Unavailable
            /\ (Truthy(DocumentOf(symbol)) /\ ~parser_rejects(DocumentOf(symbol)))
                   => symbol \in Rows

\* Three distinct tickers, one without an identifier, give two rows and one
\* unavailable entry when the two documents parse.
Dash_ThreeTickers ==
    /\ Updated
    /\ ~call.raised
    /\ Cardinality(Selected) = 3
    /\ Cardinality(Rows) = 2
    /\ Unavailable = {DOT_NS}

----------------------------------------------------------------------------
(* Claims about the record of fetch_screener_metrics (SpecMetrics)         *)

\* fetch_screener_metrics returned the record of a document.
Measured ==
    call.op = "fetch_screener_metrics" /\ ~call.raised /\ Truthy(call.html_text)

\* What the key metrics list of the document fetched has.
Primary == primary_values(BeautifulSoup(call.html_text))

\* The two halves of the document's "High / Low" entry.
Halves == split_slash(Remove(Primary.high_low, RUPEE), <<>>)

Field(name) == dict_get(call.metrics, name)

\* C11: each of Market Cap, Current Price, P/E Ratio, 52-Week High and
\* 52-Week Low that the document has (the last two as the halves of its
\* "High / Low" entry) is in the record with the document's value, whatever
\* the search-engine fallback returned.
C11_PrimaryValuesKept ==
    Measured =>
        /\ Truthy(Primary.mcap) => Field("Market Cap") = Primary.mcap
        /\ Truthy(Primary.current_price) =>
               Field("Current Price") = Primary.current_price
        /\ Truthy(Primary.pe) => Field("P/E Ratio") = Primary.pe
        /\ (Truthy(Primary.high_low) /\ Len(Halves) = 2) =>
               /\ Field("52-Week High") = strip(Halves[1])
               /\ Field("52-Week Low") = strip(Halves[2])

\* The part of C11 that the program keeps: Market Cap, Current Price and P/E
\* Ratio of the document are never replaced.
C11_ThreeValuesKept ==
    Measured =>
        /\ Truthy(Primary.mcap) => Field("Market Cap") = Primary.mcap
        /\ Truthy(Primary.current_price) =>
               Field("Current Price") = Primary.current_price
        /\ Truthy(Primary.pe) => Field("P/E Ratio") = Primary.pe

\* The document has a "High / Low" entry and the record has the fallback's
\* 52-week high instead of the entry's.
C11_HighReplaced ==
    /\ Measured
    /\ Len(Halves) = 2
    /\ Field("52-Week High") = <<"9", "9">>
    /\ Field("52-Week Low") = N_A

\* The price and the book value the record shows, as numbers.
PriceNumber == _num(Field("Current Price"))

BookNumber == _num(Field("Book Value"))

\* C12: Price / Book is the scraped value when the document has one; else,
\* when the price and the book value are numbers and the book value is not
\* 0, their quotient with 2 decimals (1000 and 200 give "5.00"); else "N/A".
C12_PriceBook ==
    Measured =>
        /\ Primary.pb_raw /= None => Field("Price / Book") = Primary.pb_raw
        /\ (Primary.pb_raw = None /\ PriceNumber.kind = "num" /\
            BookNumber.kind = "num" /\ BookNumber.n /= 0) =>
               Field("Price / Book") =
                   fmt_fixed((IF BookNumber.n < 0 THEN -1 ELSE 1) *
                                 PriceNumber.n * BookNumber.d,
                             PriceNumber.d * Abs(BookNumber.n), 2)
        /\ (Primary.pb_raw = None /\
            (PriceNumber.kind /= "num" \/ BookNumber.kind /= "num" \/
             BookNumber.n = 0)) =>
               Field("Price / Book") = N_A
        /\ (Primary.pb_raw = None /\ PriceNumber = Num(1000, 1) /\
            BookNumber = Num(200, 1)) =>
               Field("Price / Book") = <<"5", ".", "0", "0">>

\* No scraped value, price 1000 and book value 200: the record has "5.00".
C12_Witness ==
    /\ Measured
    /\ Primary.pb_raw = None
    /\ Field("Current Price") = <<"1", "0", "0", "0">>
    /\ Field("Book Value") = <<"2", "0", "0">>
    /\ Field("Price / Book") = <<"5", ".", "0", "0">>

\* No scraped value and a book value of 0: the record has "N/A".
C12_ZeroBookValue ==
    /\ Measured
    /\ Primary.pb_raw = None
    /\ PriceNumber.kind = "num"
    /\ Field("Book Value") = <<"0">>
    /\ Field("Price / Book") = N_A

----------------------------------------------------------------------------
(* Claims about the year-over-year values (SpecYoY)                        *)

\* The profit-and-loss table of the document, if it has one.
ProfitLoss == parse_pl_table(call.html_text)

Periods == Len(ProfitLoss.columns) - 1

RowsNamed(name) == {i \in 1..Len(ProfitLoss.rows) : ProfitLoss.rows[i][1] = name}

\* The cell of the row named in the k-th period column from the end.
CellFromEnd(name, k) ==
    ProfitLoss.rows[CHOOSE i \in RowsNamed(name) : TRUE][Periods + 2 - k]

\* The cell holds a number.
IsNumber(cell) == cell /= NaN /\ py_float(Remove(cell, ",")).kind = "num"

NumberOf(cell) == py_float(Remove(cell, ","))

\* The value has to be "N/A": no table, too few periods, no such row, a cell
\* that is no number, or a previous value of 0.
NotAvailable(name) ==
    \/ ~ProfitLoss.found
    \/ Periods < 3
    \/ RowsNamed(name) = {}
    \/ ~IsNumber(CellFromEnd(name, 3))
    \/ ~IsNumber(CellFromEnd(name, 2))
    \/ NumberOf(CellFromEnd(name, 3)).n = 0

\* (last / previous - 1) * 100 with one decimal and " %".
Growth(name) ==
    LET previous == NumberOf(CellFromEnd(name, 3))
        last     == NumberOf(CellFromEnd(name, 2))
        n == (last.n * previous.d - previous.n * last.d) * 100
        d == previous.n * last.d
    IN  fmt_fixed(IF d < 0 THEN -n ELSE n, Abs(d), 1) \o <<" ", "%">>

YearOverYear(name, field) ==
    IF NotAvailable(name) THEN Field(field) = N_A
    ELSE Field(field) = Growth(name)

\* C13: the year-over-year value of a profit-and-loss row is
\* (last / previous - 1) * 100 of the third-from-last and second-from-last
\* period columns (100 and 120 give "20.0 %"), and "N/A" when the previous
\* value is 0, a cell is not numeric, the row is absent, the table has fewer
\* than 3 period columns or there is no profit-and-loss table.
C13_YearOverYear ==
    Measured =>
        /\ YearOverYear(SALES, "Sales YoY %")
        /\ YearOverYear(NET_PROFIT, "Net Profit YoY %")

\* An empty cell (NaN) in one of the two columns of the row.
EmptyCell(name) ==
    /\ ProfitLoss.found /\ Periods >= 3 /\ RowsNamed(name) /= {}
    /\ NaN \in {CellFromEnd(name, 3), CellFromEnd(name, 2)}

\* What holds of the program: C13 for every row without an empty cell in the
\* two columns.
C13_ExceptEmptyCells ==
    Measured =>
        /\ ~EmptyCell(SALES) => YearOverYear(SALES, "Sales YoY %")
        /\ ~EmptyCell(NET_PROFIT) => YearOverYear(NET_PROFIT, "Net Profit YoY %")

\* Previous 100 and last 120 give "20.0 %".
C13_TwentyPercent ==
    /\ Measured
    /\ ~NotAvailable(SALES)
    /\ CellFromEnd(SALES, 3) = <<"1", "0", "0">>
    /\ CellFromEnd(SALES, 2) = <<"1", "2", "0">>
    /\ Field("Sales YoY %") = <<"2", "0", ".", "0", " ", "%">>

\* An empty previous cell shows as "nan %".
C13_NanShown ==
    /\ Measured
    /\ EmptyCell(SALES)
    /\ Field("Sales YoY %") = nan \o <<" ", "%">>

----------------------------------------------------------------------------
(* Claims about the table locators (SpecLocate)                            *)

Located == call.op = "parse_table"

\* The tables of the document in document order; none when parsing fails.
TablesOf(html_text) ==
    IF read_html(html_text).raised THEN <<>> ELSE read_html(html_text).list

\* The first column of the table has a cell containing the substring, letter
\* case aside.
HasCell(t, substring) ==
    \E i \in 1..Len(t.rows) :
        HasPhrase(cell_str(t.rows[i][1]), lower(substring))

\* What the locator asked for looks for in a first column.
Wanted(which, t) ==
    CASE which = "pl" -> HasCell(t, SALES) /\ HasCell(t, NET_PROFIT)
      [] which = "bs" -> HasCell(t, EQUITY_CAPITAL) /\ HasCell(t, TOTAL_ASSETS)
      [] which = "cf" -> HasCell(t, CASH_FROM_OPERATING) /\ HasCell(t, NET_CASH_FLOW)
      [] which = "sh" -> HasCell(t, PROMOTER)

\* C14: a locator returns the first table in document order whose first
\* column has a cell containing each substring it looks for (letter case
\* aside; "Promoter" alone for the shareholding table), and None when no
\* table has them or the tables cannot be parsed; it never raises.
C14_FirstMatchingTable ==
    Located =>
        LET tables == TablesOf(call.html_text)
            wanted == {i \in 1..Len(tables) : Wanted(call.which, tables[i])}
        IN  /\ wanted = {} => call.table = NoTable
            /\ wanted /= {} =>
                   \E i \in wanted :
                       /\ \A j \in wanted : i <= j
                       /\ call.table = Found(tables[i])

\* Two tables match, in another letter case than the substrings', and the
\* first of them is returned.
C14_Witness ==
    /\ Located
    /\ call.which = "pl"
    /\ Len(TablesOf(call.html_text)) = 2
    /\ \A i \in 1..2 : Wanted("pl", TablesOf(call.html_text)[i])
    /\ TablesOf(call.html_text)[1] /= TablesOf(call.html_text)[2]
    /\ ~first_col_contains(TablesOf(call.html_text)[1], NET_PROFIT \o <<" ">>)
    /\ call.table = Found(TablesOf(call.html_text)[1])

\* Markup the parser gives up: None, and no exception.
C14_ParseFailure ==
    /\ Located
    /\ parser_rejects(call.html_text)
    /\ BeautifulSoup(PAGE).tables /= <<>>
    /\ call.table = NoTable

----------------------------------------------------------------------------
(* Claims about parse_announcements (SpecAnnouncements)                    *)

Extracted == call.op = "parse_announcements"

\* The document has an <h2>/<h3> whose text contains "announcement".
HasHeading(soup) ==
    \E i \in 1..Len(soup.headings) : HasPhrase(soup.headings[i].text, ANNOUNCEMENT)

\* The document has a <ul> whose class mentions "announcement".
HasList(soup) ==
    \E i \in 1..Len(soup.uls) :
        \E k \in 1..Len(soup.uls[i].class) :
            HasPhrase(soup.uls[i].class[k], ANNOUNCEMENT)

\* items are entries of the <li>s given, in their order.
InOrderOf(items, lis) ==
    \E f \in [1..Len(items) -> 1..Len(lis)] :
        /\ \A i, j \in 1..Len(items) : i < j => f[i] < f[j]
        /\ \A i \in 1..Len(items) : items[i] = announcement_item(lis[f[i]])

\* Every <li> under a heading's parent and in a <ul>, section by section.
SectionsOf(soup) ==
    {soup.headings[i].li : i \in 1..Len(soup.headings)} \cup
    {soup.uls[i].li : i \in 1..Len(soup.uls)}

C15_NoSection ==
    /\ Extracted
    /\ ~call.raised
    /\ BeautifulSoup(call.html_text).headings /= <<>>
    /\ BeautifulSoup(call.html_text).uls /= <<>>
    /\ ~HasHeading(BeautifulSoup(call.html_text))
    /\ ~HasList(BeautifulSoup(call.html_text))
    /\ call.items = <<>>

----------------------------------------------------------------------------
(* Claims about the chat (SpecChat)                                        *)

Handled == call.op = "handle_chat_message"

\* The last n elements of q, all of them when it has fewer.
Latest(q, n) ==
    [i \in 1..(IF Len(q) < n THEN Len(q) ELSE n) |->
        q[i + (IF Len(q) < n THEN 0 ELSE Len(q) - n)]]

\* conversation_history when the request was put together: what it held
\* before the call, and the current user message.
HistoryAtRequest ==
    call.history_before \o <<[role |-> "user", content |-> call.user_message]>>

\* C16: the request sent to the LLM is one system message, whose content
\* starts with the system prompt, followed by the last 10 messages of
\* conversation_history (all of them when there are fewer), and its final
\* message is the current user message.
C16_RequestWindow ==
    Handled =>
        /\ Len(call.messages) >= 2
        /\ call.messages[1].role = "system"
        /\ startswith(call.messages[1].content, SYSTEM_PROMPT)
        /\ Len(call.messages) - 1 <= 10
        /\ Tail(call.messages) = Latest(HistoryAtRequest, 10)
        /\ call.messages[Len(call.messages)] =
               [role |-> "user", content |-> call.user_message]

\* A history of more than 10 messages: the request has the system message
\* and 10 more, and the oldest message of the history is not among them.
C16_Witness ==
    /\ Handled
    /\ Len(HistoryAtRequest) > 10
    /\ Len(call.messages) = 11
    /\ call.messages[2] = HistoryAtRequest[Len(HistoryAtRequest) - 9]
    /\ call.messages[2] /= HistoryAtRequest[1]
    /\ call.messages[2].role = "assistant"

\* What the chat-history store held before the callback, as a list.
StoreBefore == IF call.store_before = None THEN <<>> ELSE call.store_before

\* What the chat-history store of the session holds after the callback.
StoreAfter == chat_history[call.session]

\* C17: when the LLM call fails, the callback raises nothing, the reply is
\* "Sorry, I encountered an error: <error>. Please try again.", the user's
\* message stays in conversation_history with no assistant message after it,
\* and the chat-history store gains the user message and the apology.
C17_FailureApology ==
    (Handled /\ call.llm.kind = "error") =>
        /\ ~call.raised
        /\ call.ai_response = SORRY \o call.llm.content \o TRY_AGAIN
        /\ conversation_history = HistoryAtRequest
        /\ StoreAfter =
               StoreBefore \o
               <<[role |-> "user", content |-> call.user_message],
                 [role |-> "assistant", content |-> call.ai_response]>>

\* A failure after an answered message: the history ends with two user
\* messages in a row while the store ends with the apology.
C17_Witness ==
    /\ Handled
    /\ call.llm.kind = "error"
    /\ Len(call.history_before) >= 2
    /\ call.history_before[Len(call.history_before)].role = "assistant"
    /\ conversation_history[Len(conversation_history)].role = "user"
    /\ Len(StoreAfter) = Len(StoreBefore) + 2
    /\ StoreAfter[Len(StoreAfter)].role = "assistant"
    /\ startswith(StoreAfter[Len(StoreAfter)].content, SORRY)

\* Two failures in a row leave two user messages at the end of the history.
C17_TwoFailures ==
    /\ Handled
    /\ call.llm.kind = "error"
    /\ Len(conversation_history) >= 2
    /\ conversation_history[Len(conversation_history) - 1].role = "user"

----------------------------------------------------------------------------
(* Claims about the secondary fetchers (SpecSecondary)                     *)

AskedQuote == call.op = "fetch_google_finance_metrics"

AskedExchange == call.op = "fetch_bse_metrics"

Failed(resp) == resp.kind /= "http"

\* The quote page response the function goes on with: the second when the
\* first has another status than 200.
QuoteFirst == requests_get(gf_url(call.symbol, <<"N", "S", "E">>))

QuoteSecond == requests_get(gf_url(call.symbol, <<"B", "O", "M">>))

QuoteUsed ==
    IF ~Failed(QuoteFirst) /\ QuoteFirst.status /= 200 THEN QuoteSecond ELSE QuoteFirst

\* A request of the quote page raises, or the parser gives its markup up.
QuoteException ==
    \/ Failed(QuoteFirst)
    \/ Failed(QuoteUsed)
    \/ QuoteUsed.status = 200 /\ parser_rejects(QuoteUsed.text)

\* The page is parsed and the lookup of one of its labels raises.
QuoteLookupRaises ==
    /\ ~QuoteException
    /\ QuoteUsed.status = 200
    /\ \E i \in 1..Len(BeautifulSoup(QuoteUsed.text).labels) :
           BeautifulSoup(QuoteUsed.text).labels[i][2] = RAISES

ApiResponse == requests_get(BSE_API \o call.symbol)

PageResponse == requests_get(BSE_PAGE \o call.symbol)

\* The API answered 200 and decoding or indexing its body raises.
ApiBodyRaises ==
    /\ ~Failed(ApiResponse)
    /\ ApiResponse.status = 200
    /\ response_json(ApiResponse.text).kind \in {"raises", "object"}

\* The exchange's page is asked for: the API answered, and not with a list
\* that has an entry.
PageAsked ==
    /\ ~Failed(ApiResponse)
    /\ \/ ApiResponse.status /= 200
       \/ response_json(ApiResponse.text).kind /= "list"
       \/ response_json(ApiResponse.text).list = <<>>

\* A request to the exchange raises, or the parser gives the page up.
ExchangeException ==
    \/ Failed(ApiResponse)
    \/ /\ PageAsked
       /\ \/ Failed(PageResponse)
          \/ PageResponse.status = 200 /\ parser_rejects(PageResponse.text)

\* C18, as the code has it: neither function raises; an exception raised by
\* a request or by parsing a page makes it return None, while an exception
\* raised by decoding the API body or inside a label lookup is swallowed
\* where it happens and the function carries on.
C18_NeverRaises ==
    /\ AskedQuote => (~call.raised /\ (QuoteException => call.fetcher.none))
    /\ AskedExchange => (~call.raised /\ (ExchangeException => call.fetcher.none))

\* The exchange's API answers, its list is empty, and the request of the page
\* times out or fails: None is returned after both requests.
C18_Witness ==
    /\ AskedExchange
    /\ PageAsked
    /\ Failed(PageResponse)
    /\ ~call.raised
    /\ call.fetcher.none
    /\ Len(call.fetcher.reqs) = 2

\* The quote page's markup is given up by the parser: None.
C18_QuoteRejected ==
    /\ AskedQuote
    /\ ~Failed(QuoteUsed)
    /\ QuoteUsed.status = 200
    /\ parser_rejects(QuoteUsed.text)
    /\ call.fetcher.none

\* C18 as stated: neither function raises, and any exception during its
\* requests or parsing makes it return None.
C18_AnyExceptionGivesNone ==
    /\ AskedQuote =>
           (~call.raised /\ ((QuoteException \/ QuoteLookupRaises) => call.fetcher.none))
    /\ AskedExchange =>
           (~call.raised /\ ((ExchangeException \/ ApiBodyRaises) => call.fetcher.none))

\* The API body is no JSON, and the price scraped from the page is returned.
C18_PageAfterBadJson ==
    /\ AskedExchange
    /\ ApiBodyRaises
    /\ ~call.fetcher.none
    /\ call.fetcher.value = << <<"Current Price", <<"1", "2", "3", "4">> >> >>

\* A label lookup raises and the other values are returned.
C18_QuoteAfterLookupRaises ==
    /\ AskedQuote
    /\ QuoteLookupRaises
    /\ ~call.fetcher.none
    /\ dict_get(call.fetcher.value, "Current Price") = <<"8", "8">>

----------------------------------------------------------------------------
(* Claims about the order of requests within one call (SpecFetch)          *)

\* The request is one of a standalone page.
IsStandalone(entry) == ~IsConsolidated(entry)

\* The consolidated page answered with status 404.
Answered404(entry) == entry.resp.kind = "http" /\ entry.resp.status = 404

\* C19: within one fetch_screener_html call a standalone URL is requested
\* only right after the consolidated URL of the same candidate answered 404;
\* after a consolidated response that is a 200 soft failure, any other
\* status, a timeout or a network exception, the next request, if any, is the
\* consolidated URL of a later candidate.
C19_StandaloneOnlyAfter404 ==
    Fetched =>
        /\ \A i \in 1..Len(call.log) :
               IsStandalone(call.log[i]) =>
                   /\ i > 1
                   /\ IsConsolidated(call.log[i - 1])
                   /\ Answered404(call.log[i - 1])
                   /\ call.log[i - 1].url =
                          call.log[i].url \o
                          <<"c", "o", "n", "s", "o", "l", "i", "d", "a", "t", "e", "d", "/">>
        /\ \A i \in 1..(Len(call.log) - 1) :
               (IsConsolidated(call.log[i]) /\ ~Answered404(call.log[i])) =>
                   IsConsolidated(call.log[i + 1])

\* One call in which a candidate's consolidated page fails with a status
\* other than 404 or with an exception and the next candidate is asked at
\* once, and another candidate's consolidated page answers 404 and its
\* standalone page is asked.
C19_Witness ==
    /\ Fetched
    /\ Len(call.log) >= 3
    /\ \E i \in 1..(Len(call.log) - 1) :
           /\ IsConsolidated(call.log[i])
           /\ call.log[i].resp.kind /= "http" \/ call.log[i].resp.status \notin {200, 404}
           /\ IsConsolidated(call.log[i + 1])
    /\ \E i \in 2..Len(call.log) :
           /\ IsStandalone(call.log[i])
           /\ Answered404(call.log[i - 1])

\* C20: within one fetch_screener_html call no URL is requested more than
\* once, whatever candidate list the resolver produced.
C20_NoUrlTwice ==
    Fetched =>
        \A i, j \in 1..Len(call.log) :
            call.log[i].url = call.log[j].url => i = j

\* C20 for the candidate lists without a repeated code.
C20_NoUrlTwiceForDistinctCodes ==
    (Fetched /\ \A i, j \in 1..Len(call.codes) :
                    call.codes[i] = call.codes[j] => i = j) =>
        \A i, j \in 1..Len(call.log) :
            call.log[i].url = call.log[j].url => i = j

\* A list derived from the master list names a code twice and its
\* consolidated page is requested twice.
C20_RepeatedCode ==
    /\ Fetched
    /\ call.symbol \in DOMAIN TICKER_TO_SCREENER_CODES
    /\ call.codes = TICKER_TO_SCREENER_CODES[call.symbol]
    /\ \E i, j \in 1..Len(call.log) :
           i < j /\ call.log[i].url = call.log[j].url

----------------------------------------------------------------------------
(* Claims about the mapping built from the master list (SpecResolve)       *)

\* The row has a value in the column: the column is there and the cell is not
\* null, not blank and not the text "nan".
Given(row, col) ==
    /\ col \in master_df.columns
    /\ row[col] /= NaN
    /\ strip(row[col]) \notin {<<>>, nan}

\* The text before the first "." of s, s itself without one.
UpToDot(s) ==
    IF \E k \in 1..Len(s) : s[k] = "."
    THEN SubSeq(s, 1, (CHOOSE k \in 1..Len(s) :
                          s[k] = "." /\ \A j \in 1..(k - 1) : s[j] /= ".") - 1)
    ELSE s

\* s without a trailing ".0".
WithoutTrailingZero(s) ==
    IF Len(s) >= 2 /\ s[Len(s) - 1] = "." /\ s[Len(s)] = "0"
    THEN SubSeq(s, 1, Len(s) - 2)
    ELSE s

\* The identifier derived from the ticker string alone.
FromTicker(ticker) ==
    IF Len(ticker) >= 3 /\
       SubSeq(ticker, Len(ticker) - 2, Len(ticker)) \in {<<".", "N", "S">>, <<".", "B", "O">>}
    THEN SubSeq(ticker, 1, Len(ticker) - 3)
    ELSE UpToDot(ticker)

\* The candidates of a row in the order NSE_SYMBOL, BSE_CODE, BSE_SYMBOL, the
\* BSE_CODE shortened by Cut and taken only when all digits.
Derived(row, Cut(_)) ==
    LET list ==
            (IF Given(row, "NSE_SYMBOL") THEN <<strip(row.NSE_SYMBOL)>> ELSE <<>>) \o
            (IF Given(row, "BSE_CODE") /\ isdigit(Cut(strip(row.BSE_CODE)))
             THEN <<Cut(strip(row.BSE_CODE))>> ELSE <<>>) \o
            (IF Given(row, "BSE_SYMBOL") THEN <<strip(row.BSE_SYMBOL)>> ELSE <<>>)
    IN  IF list /= <<>> THEN list ELSE <<FromTicker(row.Ticker)>>

\* The last row of the master list for the ticker.
LastRowOf(ticker) ==
    master_df.rows[CHOOSE i \in 1..Len(master_df.rows) :
                       /\ master_df.rows[i].Ticker = ticker
                       /\ \A j \in (i + 1)..Len(master_df.rows) :
                              master_df.rows[j].Ticker /= ticker]

LoadedTickers == {master_df.rows[i].Ticker : i \in 1..Len(master_df.rows)}

C21_FromTicker ==
    /\ call.op = "resolve"
    /\ call.symbol \in LoadedTickers
    /\ call.symbol \notin DOMAIN SCREENER_SPECIAL
    /\ "BSE_CODE" \in master_df.columns
    /\ \A col \in {"NSE_SYMBOL", "BSE_SYMBOL"} : ~Given(LastRowOf(call.symbol), col)
    /\ call.codes = <<FromTicker(call.symbol)>>

----------------------------------------------------------------------------
(* Claims about the secondary sources of fetch_screener_metrics            *)
(* (SpecFallback)                                                          *)

Computed == call.op = "fetch_screener_metrics" /\ ~call.hit

\* The secondary requests of the call that went to the exchange, and those
\* that went to the search engine's quote pages.
ToExchange ==
    SelectSeq(call.secondary,
              LAMBDA u : startswith(u, BSE_API) \/ startswith(u, BSE_PAGE))

ToQuotes == SelectSeq(call.secondary, LAMBDA u : startswith(u, GF_QUOTE))

\* The ticker has an all-digit candidate.
HasNumericCandidate ==
    \E i \in 1..Len(get_screener_codes_for_ticker(call.symbol)) :
        /\ Truthy(get_screener_codes_for_ticker(call.symbol)[i])
        /\ isdigit(get_screener_codes_for_ticker(call.symbol)[i])

\* The document fetched has a Market Cap and a Current Price.
HasBothKeyMetrics ==
    /\ Truthy(call.html_text)
    /\ \E i \in 1..Len(BeautifulSoup(call.html_text).li) :
           /\ Len(BeautifulSoup(call.html_text).li[i]) >= 2
           /\ BeautifulSoup(call.html_text).li[i][1] = "Market Cap"
           /\ BeautifulSoup(call.html_text).li[i][2] /= <<>>
    /\ \E i \in 1..Len(BeautifulSoup(call.html_text).li) :
           /\ Len(BeautifulSoup(call.html_text).li[i]) >= 2
           /\ BeautifulSoup(call.html_text).li[i][1] = "Current Price"
           /\ BeautifulSoup(call.html_text).li[i][2] /= <<>>

\* C22: the exchange is asked only when fetch_screener_html returned no
\* document and the ticker has a numeric candidate; the search engine only
\* when a document was obtained and its Market Cap or Current Price is
\* missing; a document with both causes no secondary request at all.
C22_SecondaryOnlyOnTriggers ==
    Computed =>
        /\ ToExchange /= <<>> => (~Truthy(call.html_text) /\ HasNumericCandidate)
        /\ ToQuotes /= <<>> => (Truthy(call.html_text) /\ ~HasBothKeyMetrics)
        /\ HasBothKeyMetrics => call.secondary = <<>>

\* The document has a price and an empty market cap, and the quote pages are
\* asked; nothing goes to the exchange although the ticker has a code.
C22_Witness ==
    /\ Computed
    /\ Truthy(call.html_text)
    /\ ~HasBothKeyMetrics
    /\ HasNumericCandidate
    /\ ToQuotes /= <<>>
    /\ ToExchange = <<>>
    /\ dict_get(call.metrics, "Current Price") = <<"1", "0", "0", "0">>

\* No document, a numeric candidate, and the exchange is asked.
C22_ExchangeAsked ==
    /\ Computed
    /\ ~Truthy(call.html_text)
    /\ ToExchange /= <<>>
    /\ ToQuotes = <<>>

\* A document with both values: no secondary request.
C22_NothingAsked ==
    /\ Computed
    /\ HasBothKeyMetrics
    /\ call.secondary = <<>>
    /\ call.log /= <<>>

----------------------------------------------------------------------------
(* Claims about the exchange's page as a fallback (SpecSecondary)          *)

\* The API answered 200 with a list whose first entry has none of the price,
\* high and low fields.
EntryWithoutFields ==
    /\ ~Failed(ApiResponse)
    /\ ApiResponse.status = 200
    /\ response_json(ApiResponse.text).kind = "list"
    /\ response_json(ApiResponse.text).list /= <<>>
    /\ \A i \in 1..Len(response_json(ApiResponse.text).list[1]) :
           response_json(ApiResponse.text).list[1][i][1] \notin {"CurrRate", "High", "Low"}

\* The exchange's page was requested by the call.
PageRequested ==
    \E i \in 1..Len(call.fetcher.reqs) : call.fetcher.reqs[i] = BSE_PAGE \o call.symbol

\* C23: whenever the API yields nothing usable (a status other than 200, a
\* body that is no JSON list, an empty list, or a first entry with none of
\* the price, high and low fields) fetch_bse_metrics requests the exchange's
\* HTML page before it returns.
C23_PageWheneverApiUseless ==
    (AskedExchange /\ (PageAsked \/ EntryWithoutFields)) => PageRequested

\* C23 without the entry that has none of the fields: the three other cases
\* lead to the page.
C23_PageUnlessBareEntry ==
    (AskedExchange /\ PageAsked) => PageRequested

\* The first entry has none of the fields: None is returned after the API
\* request alone.
C23_NoneWithoutPage ==
    /\ AskedExchange
    /\ EntryWithoutFields
    /\ call.fetcher.none
    /\ call.fetcher.reqs = <<BSE_API \o call.symbol>>

----------------------------------------------------------------------------
(* Claims about the items parse_announcements takes (SpecAnnouncements)    *)

\* The <li>s of the scan root: those under the parent of the first
\* announcements heading, else those of the first announcements list.
ScanRoot(soup) ==
    IF HasHeading(soup)
    THEN soup.headings[CHOOSE i \in 1..Len(soup.headings) :
             /\ HasPhrase(soup.headings[i].text, ANNOUNCEMENT)
             /\ \A j \in 1..(i - 1) :
                    ~HasPhrase(soup.headings[j].text, ANNOUNCEMENT)].li
    ELSE soup.uls[CHOOSE i \in 1..Len(soup.uls) :
             /\ \E k \in 1..Len(soup.uls[i].class) :
                    HasPhrase(soup.uls[i].class[k], ANNOUNCEMENT)
             /\ \A j \in 1..(i - 1) :
                    \A k \in 1..Len(soup.uls[j].class) :
                        ~HasPhrase(soup.uls[j].class[k], ANNOUNCEMENT)].li

WithLink(lis) == SelectSeq(lis, LAMBDA li : li.linked)

FirstOf(q, n) == SubSeq(q, 1, IF Len(q) < n THEN Len(q) ELSE n)

EntriesOf(lis) == [i \in 1..Len(lis) |-> announcement_item(lis[i])]

\* parse_announcements returned for a document that has a scan root.
Scanned ==
    /\ Extracted
    /\ ~call.raised
    /\ HasHeading(BeautifulSoup(call.html_text)) \/ HasList(BeautifulSoup(call.html_text))

\* C24: the items returned are the first max_items link-bearing list items
\* of the scan root; items without a link do not count toward max_items.
C24_FirstLinkBearingItems ==
    Scanned =>
        call.items =
            EntriesOf(FirstOf(WithLink(ScanRoot(BeautifulSoup(call.html_text))),
                              call.max_items))

\* What the program returns: the link-bearing ones among the first max_items
\* list items of the scan root.
C24_LinkBearingOfFirstItems ==
    Scanned =>
        call.items =
            EntriesOf(WithLink(FirstOf(ScanRoot(BeautifulSoup(call.html_text)),
                                       call.max_items)))

\* A section with max_items link-bearing items after one without a link
\* yields fewer than max_items items.
C24_LinklessItemCounted ==
    /\ Scanned
    /\ Len(WithLink(ScanRoot(BeautifulSoup(call.html_text)))) >= call.max_items
    /\ ~ScanRoot(BeautifulSoup(call.html_text))[1].linked
    /\ Len(call.items) = call.max_items - 1

----------------------------------------------------------------------------
(* Claims about tickers without an identifier (SpecFallback)               *)

\* The ticker's candidate list is [None] or has only empty identifiers.
NoUsableIdentifier ==
    \A i \in 1..Len(get_screener_codes_for_ticker(call.symbol)) :
        get_screener_codes_for_ticker(call.symbol)[i] \in {None, <<>>}

\* C25: for a ticker without a usable identifier fetch_screener_html returns
\* None and fetch_screener_metrics the empty record, and no request is made,
\* neither to the site nor to a secondary source.
C25_NoIdentifierNoRequest ==
    (Computed /\ NoUsableIdentifier) =>
        /\ ~call.raised
        /\ call.html_text = None
        /\ call.log = <<>>
        /\ call.metrics = <<>>
        /\ call.secondary = <<>>

\* The ticker ".NS", whose one candidate is the empty identifier, on a site
\* and an exchange that would answer.
C25_Witness ==
    /\ Computed
    /\ call.symbol = DOT_NS
    /\ get_screener_codes_for_ticker(call.symbol) = << <<>> >>
    /\ requests_get(BSE_API \o N5).status = 200
    /\ call.html_text = None
    /\ call.log = <<>>
    /\ call.metrics = <<>>

\* The ticker None, whose candidate list is [None].
C25_NoneTicker ==
    /\ Computed
    /\ call.symbol = None
    /\ get_screener_codes_for_ticker(call.symbol) = <<None>>
    /\ call.metrics = <<>>

----------------------------------------------------------------------------
(* Claims about the completeness of the record (SpecFallback)              *)

MetricNames ==
    <<"Market Cap", "Current Price", "P/E Ratio", "Book Value", "Price / Book",
      "Dividend Yield", "ROCE", "ROE", "Face Value", "52-Week High", "52-Week Low",
      "Sales YoY %", "Net Profit YoY %">>

RecordReturned == call.op = "fetch_screener_metrics" /\ ~call.raised

\* C26: a record returned by fetch_screener_metrics is empty, and then there
\* was no document, or it maps each of the 13 metric names, and no other, to
\* a value that is not null.
C26_EmptyOrComplete ==
    RecordReturned =>
        \/ call.metrics = <<>> /\ ~Truthy(call.html_text)
        \/ /\ Len(call.metrics) = Len(MetricNames)
           /\ \A i \in 1..Len(MetricNames) :
                  /\ call.metrics[i][1] = MetricNames[i]
                  /\ call.metrics[i][2] /= None

\* A document without a price, the quote pages answering 404: the record is
\* complete, with "N/A" for the price.
C26_Witness ==
    /\ RecordReturned
    /\ Truthy(call.html_text)
    /\ ToQuotes /= <<>>
    /\ Len(call.metrics) = 13
    /\ dict_get(call.metrics, "Current Price") = N_A
    /\ dict_get(call.metrics, "P/E Ratio") = <<"2", "0">>

\* No document, and the exchange's data make a complete record.
C26_ExchangeRecord ==
    /\ RecordReturned
    /\ ~Truthy(call.html_text)
    /\ Len(call.metrics) = 13
    /\ dict_get(call.metrics, "Current Price") = <<"1", "2">>
    /\ dict_get(call.metrics, "Market Cap") = N_A

----------------------------------------------------------------------------
(* Claims about the final URL of the response returned (SpecFetch)         *)

\* The call fetched and returned a document: that of its last request.
ReturnedFetched == Fetched /\ ~call.hit /\ call.result /= None

Delivering == call.log[Len(call.log)]

\* The final URL of the response says that the page was not found.
FinalUrlSaysNotFound(resp) ==
    HasPhrase(resp.url, S404) \/ HasPhrase(resp.url, NOT_FOUND)

\* C27: no document returned by fetch_screener_html comes from a response,
\* to the consolidated or to the standalone request, whose URL after
\* redirects contains "404" or "not-found".
C27_NoSoftFailureByUrl ==
    ReturnedFetched => ~FinalUrlSaysNotFound(Delivering.resp)

\* C27 for the consolidated request alone.
C27_ConsolidatedChecked ==
    (ReturnedFetched /\ IsConsolidated(Delivering)) =>
        ~FinalUrlSaysNotFound(Delivering.resp)

\* The standalone request was redirected to a 404 page and its body is
\* returned.
C27_StandaloneRedirected ==
    /\ ReturnedFetched
    /\ IsStandalone(Delivering)
    /\ Delivering.resp.status = 200
    /\ Delivering.resp.url /= Delivering.url
    /\ FinalUrlSaysNotFound(Delivering.resp)
    /\ call.result = Delivering.resp.text

----------------------------------------------------------------------------
(* Refreshes and chat messages while a page changes (SpecRefresh)          *)

\* Three companies, each with a page of its own.
RefreshMaster ==
    [columns |-> AllColumns,
     rows |-> << Row(A_NS, <<"A">>, NaN, NaN),
                 Row(N5_BO, NaN, <<"5">>, NaN),
                 Row(B_BO, <<"B">>, NaN, NaN) >>]

RefreshSelections == {<<A_NS>>, <<N5_BO>>, <<B_BO>>, <<None, A_NS>>}

\* The page of code A is served at the consolidated URL, or at the standalone
\* URL alone; the two bodies differ.
RefreshBehaviours == {<<"ok", "404">>, <<"404", "ok">>}

\* The key metrics on the two bodies of code A differ.
OtherKeyList ==
    key_items(<< <<"Market Cap", <<"7">> >>, <<"Current Price", <<"6">> >> >>)

RefreshMarkup ==
    [text \in {DocText(c, v) : c \in SiteCodes, v \in {CONS, BASE}} |->
        [EmptyDocument EXCEPT
            !.li = IF text = DocText(<<"A">>, BASE) THEN OtherKeyList ELSE FullKeyList]]

InitRefresh ==
    /\ SCREENER_SPECIAL = EmptyMap
    /\ master_df = RefreshMaster
    /\ TICKER_TO_SCREENER_CODES = csv_mapping(master_df)
    /\ site = site_of([c \in SiteCodes |-> <<"ok", "404">>])
    /\ markup = RefreshMarkup
    /\ InitProcess

NextRefresh ==
    \/ \E selected \in RefreshSelections : DropdownChanged(selected)
    \/ \E selected \in RefreshSelections : UpdateDashboard(selected)
    \/ \E user_message \in {<<"h", "i">>, <<>>} :
           HandleChatMessage(1, user_message, <<None, A_NS>>,
                             [kind |-> "reply", content |-> <<"o", "k">>])
    \/ \E beh \in RefreshBehaviours : SiteChange(<<"A">>, beh)

SpecRefresh == InitRefresh /\ [][NextRefresh]_vars

----------------------------------------------------------------------------
(* Claims about the two caches of a refresh (SpecRefresh)                  *)

\* The refresh ended without raising.
Refreshed == Updated /\ ~call.raised

\* The record fetch_screener_metrics computes from the document html_text.
ComputedFrom(html_text, symbol) == metrics_of_fetched(html_text, symbol).value

\* The metrics row i of the refresh is the one computed from the document
\* the refresh parses the tables and the announcements of that ticker from.
RowOfDocument(i) ==
    call.metrics_data[i].fundamentals =
        ComputedFrom(call.documents[i], call.metrics_data[i].Symbol)

\* C28: in every refresh, whatever refreshes and chat messages came before,
\* the metrics row of a ticker is computed from the document the refresh
\* parses the tables and the announcements from.
C28_RowFromDocumentParsed ==
    Refreshed => \A i \in 1..Len(call.metrics_data) : RowOfDocument(i)

\* The refresh shows the tables of the page now served next to the metrics
\* of the page served before.
C28_RowOfEarlierDocument ==
    /\ Refreshed
    /\ call.selected = <<A_NS>>
    /\ call.documents = <<DocText(<<"A">>, BASE)>>
    /\ call.metrics_data[1].fundamentals = ComputedFrom(DocText(<<"A">>, CONS), A_NS)
    /\ ~RowOfDocument(1)

----------------------------------------------------------------------------
(* The chat of two browser sessions (SpecSessions)                         *)

\* What each session types: the texts of the two sessions differ.
TypedIn(session) ==
    IF session = 1 THEN {<<"h", "i">>, <<>>} ELSE {<<"y", "o">>}

InitSessions ==
    /\ SCREENER_SPECIAL = EmptyMap
    /\ master_df = MetricsMaster
    /\ TICKER_TO_SCREENER_CODES = csv_mapping(master_df)
    /\ site = merge(site_with(quote_urls(A_NS), <<"404", "404">>, QUOTE),
                    site_of([c \in {<<"A">>} |-> <<"ok", "404">>]))
    /\ markup = [text \in {PAGE} |-> [EmptyDocument EXCEPT !.li = FullKeyList]]
    /\ InitProcess

NextSessions ==
    \E session \in Sessions :
        \E user_message \in TypedIn(session) :
            HandleChatMessage(session, user_message, <<>>,
                              [kind |-> "reply", content |-> <<"o", "k">>])

SpecSessions == InitSessions /\ [][NextSessions]_vars

----------------------------------------------------------------------------
(* Claims about the chat of two browser sessions (SpecSessions)            *)

\* The texts the session has typed so far: those of its store, and the one
\* of this call.
TypedBySession ==
    {StoreBefore[i].content : i \in {j \in 1..Len(StoreBefore) : StoreBefore[j].role = "user"}}
        \cup {call.user_message}

\* The user messages of the request sent to the LLM.
UserMessagesSent ==
    {call.messages[i].content :
         i \in {j \in 1..Len(call.messages) : call.messages[j].role = "user"}}

\* C29: the messages sent to the LLM for one browser session hold only that
\* session's earlier messages: every user message of the request was typed in
\* the session the callback serves.
C29_OwnMessagesOnly == Handled => UserMessagesSent \subseteq TypedBySession

\* The first message of a session is sent along with what another session
\* typed before.
C29_OtherSessionSent ==
    /\ Handled
    /\ call.session = 2
    /\ StoreBefore = <<>>
    /\ <<"h", "i">> \in UserMessagesSent
    /\ Len(call.messages) > 2

\* C29 while one session alone chats.
C29_AloneOwnMessages ==
    (Handled /\ \A other \in Sessions \ {call.session} : chat_history[other] = None) =>
        UserMessagesSent \subseteq TypedBySession

----------------------------------------------------------------------------
(* Two threads serving dashboard callbacks (SpecConcurrent)                *)

ConcurrentTickers == {A_NS, N5_BO, DOT_NS}

InitConcurrent ==
    /\ SCREENER_SPECIAL = EmptyMap
    /\ master_df = DashMaster
    /\ TICKER_TO_SCREENER_CODES = csv_mapping(master_df)
    /\ \E beh \in [{<<"A">>, <<"5">>} -> {<<"ok", "404">>, <<"404", "ok">>, <<"500", "404">>}] :
           site = site_of(beh)
    /\ markup = NoMarkup
    /\ InitProcess

NextConcurrent ==
    \/ \E th \in Threads, symbol \in ConcurrentTickers : DashboardStarts(th, symbol)
    \/ \E th \in Threads : BodyRuns(th)
    \/ \E th \in Threads : DashboardEnds(th)

SpecConcurrent == InitConcurrent /\ [][NextConcurrent]_vars

----------------------------------------------------------------------------
(* Claims about concurrent callbacks (SpecConcurrent)                      *)

\* The thread is in a call of fetch_screener_html(symbol) that missed the
\* cache, and has made the requests of the body.
HasFetched(th, symbol) ==
    /\ threads[th].pc = "fetched"
    /\ threads[th].symbol = symbol
    /\ threads[th].log /= <<>>

\* C30: of two dashboard callbacks that run at the same time and call
\* fetch_screener_html for the same uncached ticker, at most one makes the
\* requests for that ticker.
C30_AtMostOneFetchPerKey ==
    \A symbol \in ConcurrentTickers : \A t1, t2 \in Threads :
        (HasFetched(t1, symbol) /\ HasFetched(t2, symbol)) => t1 = t2

\* Both threads have asked the site for the page of A.NS, each for its own
\* call, and neither result is in the cache yet.
C30_BothFetched ==
    /\ HasFetched(1, A_NS)
    /\ HasFetched(2, A_NS)
    /\ A_NS \notin cache_keys(html_cache)
    /\ threads[1].log = threads[2].log

====
